---- MODULE Spec2Model ----
(***************************************************************************)
(* A model of the perplexity-web-api client: the SSE frame decoder         *)
(* (sse.rs), the event content extractor (parse.rs), the model registry    *)
(* (config.rs), the upload pipeline (upload.rs) and the session            *)
(* orchestrator (client.rs: search_stream, search).                        *)
(*                                                                         *)
(* Bytes are integers 0..255, byte strings are sequences of them.          *)
(* Option<T> is a sequence of length at most one: None is <<>>, Some(x)    *)
(* is <<x>>.  Result<T> is [ok |-> TRUE, v |-> x] or [ok |-> FALSE,        *)
(* e |-> "Error variant"].                                                 *)
(***************************************************************************)
EXTENDS Integers, Sequences, FiniteSets, TLC

VARIABLES
    \* ---- Client and the submission (client.rs) ----
    has_cookies,   \* Client.has_cookies
    request,       \* the SearchRequest given to search / search_stream
    pc,            \* position of the call inside search_stream / search / poll_next
    file_idx,      \* index of the file the upload loop is at (1-based)
    negotiated,    \* s3_object_url of the UploadUrlResponse of the current file
    s3_resp,       \* Option: the S3UploadResponse upload_file has read from the
                   \* transfer response body for the current file
    attachments,   \* the local Vec `attachments` of search_stream
    payload,       \* Option: the AskPayload as serialised into the main query POST
    net_log,       \* history: every network call issued by the submission, in order
    outcome,       \* Option<Result<..>>: what search_stream / search returned
    \* ---- the response body and the transport stream (inner) ----
    stream,        \* all the bytes the server sends on this response
    rest,          \* the bytes of `stream` the transport has not handed over yet
    ready,         \* the transport has something to report to the next poll
    net_err,       \* "none" | "raised" | "reported": a transport error
    \* ---- SseStream (sse.rs) ----
    buffer,        \* SseStream.buffer
    finished,      \* SseStream.finished
    \* ---- the consumer of the event stream ----
    consumer,      \* "search" (Client::search) | "stream" (a search_stream caller)
    last_event,    \* Option<SearchEvent>: the local last_event of search
    emitted,       \* history: every item poll_next returned as Ready(Some(..))
    \* ---- a call of parse_sse_event (parse.rs) ----
    parse_arg,     \* the argument json_str
    parse_ret,     \* Option<Result<SearchEvent>>: what the call returned
    \* ---- a second call of search_stream on the same Client ----
    parked,        \* Option: the SseStream, transport and consumer position of the
                   \* call that is not running now
    \* ---- an MCP tool call (server.rs) ----
    tool_call,     \* Option: the tool called and its PerplexityRequest params
    \* ---- ClientBuilder and the transport (client.rs) ----
    builder,       \* the ClientBuilder: its fields cookies and http_client
    http           \* Option: Client.http, none while no Client has been built

vars == <<has_cookies, request, pc, file_idx, negotiated, s3_resp, attachments, payload,
          net_log, outcome, stream, rest, ready, net_err, buffer, finished,
          consumer, last_event, emitted, parse_arg, parse_ret, parked,
          tool_call, builder, http>>

submitVars == <<has_cookies, request, file_idx, negotiated, s3_resp, attachments, payload,
                net_log>>
streamVars == <<stream, rest, ready, net_err, buffer, finished, consumer,
                last_event, emitted>>
parseVars == <<parse_arg, parse_ret>>
buildVars == <<builder, http>>

-----------------------------------------------------------------------------
(* Option and Result *)

None == <<>>
Some(x) == <<x>>
IsSome(o) == o # <<>>
Unwrap(o) == o[1]

Ok(x) == [ok |-> TRUE, v |-> x]
Err(e) == [ok |-> FALSE, e |-> e]

-----------------------------------------------------------------------------
(* Byte strings *)

\* "event: message\r\n"
EVENT_MESSAGE_PREFIX ==
    <<101, 118, 101, 110, 116, 58, 32, 109, 101, 115, 115, 97, 103, 101, 13, 10>>
\* "event: end_of_stream\r\n"
EVENT_END_OF_STREAM_PREFIX ==
    <<101, 118, 101, 110, 116, 58, 32, 101, 110, 100, 95, 111, 102, 95, 115, 116,
      114, 101, 97, 109, 13, 10>>
\* "data: "
DATA_PREFIX == <<100, 97, 116, 97, 58, 32>>
\* "\r\n\r\n"
DELIMITER == <<13, 10, 13, 10>>

\* slice.starts_with(prefix)
StartsWith(s, prefix) ==
    /\ Len(s) >= Len(prefix)
    /\ SubSeq(s, 1, Len(prefix)) = prefix

\* memmem::find(haystack, needle): Option<usize>, the 0-based offset of the
\* first occurrence.
Find(haystack, needle) ==
    LET hits == {i \in 0..(Len(haystack) - Len(needle)) :
                    /\ haystack[i + 1] = needle[1]
                    /\ SubSeq(haystack, i + 1, i + Len(needle)) = needle}
    IN  IF hits = {} THEN None
        ELSE Some(CHOOSE i \in hits : \A j \in hits : i <= j)

\* &s[from..] with a 0-based offset
SliceFrom(s, from) == SubSeq(s, from + 1, Len(s))

-----------------------------------------------------------------------------
(* serde_json.  A serde_json::Value is a tagged record; an object's map is  *)
(* a function from its keys (strings) to Values.  serde_json::from_str is   *)
(* the library's parser: it is modelled on the finite set of texts that     *)
(* occur in the modelled responses, every other text is not JSON.           *)

JNull == [t |-> "null"]
JStr(s) == [t |-> "string", v |-> s]
JNum(n) == [t |-> "number", v |-> n]
JArr(a) == [t |-> "array", v |-> a]
JObj(m) == [t |-> "object", v |-> m]

\* Value::get(key) for a string key: Some only on an object that has the key
Get(value, key) ==
    IF value.t = "object" /\ key \in DOMAIN value.v THEN Some(value.v[key]) ELSE None

\* Option<&Value>::and_then(|v| v.as_str())
AndThenAsStr(o) == IF IsSome(o) /\ Unwrap(o).t = "string" THEN Some(Unwrap(o).v) ELSE None

\* Option<&Value>::and_then(|v| v.as_array())
AndThenAsArray(o) == IF IsSome(o) /\ Unwrap(o).t = "array" THEN Some(Unwrap(o).v) ELSE None

ParisText == "{\"answer\":\"Paris\"}"
ParisBytes ==
    <<123, 34, 97, 110, 115, 119, 101, 114, 34, 58, 34, 80, 97, 114, 105, 115, 34, 125>>

CtxText == "{\"backend_uuid\":\"u\",\"attachments\":[\"f\"]}"
CtxBytes ==
    <<123, 34, 98, 97, 99, 107, 101, 110, 100, 95, 117, 117, 105, 100, 34, 58, 34,
      117, 34, 44, 34, 97, 116, 116, 97, 99, 104, 109, 101, 110, 116, 115, 34, 58,
      91, 34, 102, 34, 93, 125>>

AnswerDataText ==
    "{\"answer\":\"N\",\"web_results\":[{\"name\":\"n\",\"url\":\"u\",\"snippet\":\"s\"}]}"

StepsText ==
    "[{\"step_type\":\"FINAL\",\"content\":{\"answer\":\"{\\\"answer\\\":\\\"N\\\",\\\"web_results\\\":[{\\\"name\\\":\\\"n\\\",\\\"url\\\":\\\"u\\\",\\\"snippet\\\":\\\"s\\\"}]}\"}}]"

NestedText ==
    "{\"text\":\"[{\\\"step_type\\\":\\\"FINAL\\\",\\\"content\\\":{\\\"answer\\\":\\\"{\\\\\\\"answer\\\\\\\":\\\\\\\"N\\\\\\\",\\\\\\\"web_results\\\\\\\":[{\\\\\\\"name\\\\\\\":\\\\\\\"n\\\\\\\",\\\\\\\"url\\\\\\\":\\\\\\\"u\\\\\\\",\\\\\\\"snippet\\\\\\\":\\\\\\\"s\\\\\\\"}]}\\\"}}]\"}"
NestedBytes ==
    <<123, 34, 116, 101, 120, 116, 34, 58, 34, 91, 123, 92, 34, 115, 116, 101, 112,
      95, 116, 121, 112, 101, 92, 34, 58, 92, 34, 70, 73, 78, 65, 76, 92, 34, 44,
      92, 34, 99, 111, 110, 116, 101, 110, 116, 92, 34, 58, 123, 92, 34, 97, 110,
      115, 119, 101, 114, 92, 34, 58, 92, 34, 123, 92, 92, 92, 34, 97, 110, 115,
      119, 101, 114, 92, 92, 92, 34, 58, 92, 92, 92, 34, 78, 92, 92, 92, 34, 44,
      92, 92, 92, 34, 119, 101, 98, 95, 114, 101, 115, 117, 108, 116, 115, 92, 92,
      92, 34, 58, 91, 123, 92, 92, 92, 34, 110, 97, 109, 101, 92, 92, 92, 34, 58,
      92, 92, 92, 34, 110, 92, 92, 92, 34, 44, 92, 92, 92, 34, 117, 114, 108, 92,
      92, 92, 34, 58, 92, 92, 92, 34, 117, 92, 92, 92, 34, 44, 92, 92, 92, 34, 115,
      110, 105, 112, 112, 101, 116, 92, 92, 92, 34, 58, 92, 92, 92, 34, 115, 92,
      92, 92, 34, 125, 93, 125, 92, 34, 125, 125, 93, 34, 125>>

\* "x": a payload that is not JSON
NotJsonText == "x"
NotJsonBytes == <<120>>

\* a payload that is not UTF-8
BadUtf8Bytes == <<255>>

\* The texts nested in the payloads: the strings found in "text" and in the
\* content.answer of a FINAL step
\* an answer with one complete web result (parse.rs 154)
AnswerFullText ==
    "{\"answer\":\"Nested answer\",\"web_results\":[{\"name\":\"Source\",\"url\":\"https://example.com\",\"snippet\":\"Example\"}]}"
\* an answer whose web_results has entries without a snippet, with a number for url, and a string for an entry
AnswerMixedText ==
    "{\"answer\":\"A\",\"web_results\":[{\"name\":\"N1\",\"url\":\"U1\",\"snippet\":\"S1\"},{\"name\":\"N2\",\"url\":\"U2\"},{\"name\":\"N3\",\"url\":3,\"snippet\":\"S3\"},\"loose\",{\"name\":\"N4\",\"url\":\"U4\",\"snippet\":\"S4\"}]}"
\* an answer without web_results
AnswerBareText ==
    "{\"answer\":\"A\"}"
\* an object with web_results and no answer
AnswerResultsOnlyText ==
    "{\"web_results\":[{\"name\":\"Only\",\"url\":\"https://only.example\",\"snippet\":\"Results\"}]}"
\* JSON, but no object
AnswerNumberText ==
    "42"
\* no JSON
AnswerPlainText ==
    "Paris is the capital"
\* a SEARCH step and a FINAL step whose content.answer is AnswerFullText
StepsFullText ==
    "[{\"step_type\":\"SEARCH\",\"content\":{}},{\"step_type\":\"FINAL\",\"content\":{\"answer\":\"{\\\"answer\\\":\\\"Nested answer\\\",\\\"web_results\\\":[{\\\"name\\\":\\\"Source\\\",\\\"url\\\":\\\"https://example.com\\\",\\\"snippet\\\":\\\"Example\\\"}]}\"}}]"
\* a SEARCH step and a FINAL step whose content.answer is AnswerMixedText
StepsMixedText ==
    "[{\"step_type\":\"SEARCH\",\"content\":{}},{\"step_type\":\"FINAL\",\"content\":{\"answer\":\"{\\\"answer\\\":\\\"A\\\",\\\"web_results\\\":[{\\\"name\\\":\\\"N1\\\",\\\"url\\\":\\\"U1\\\",\\\"snippet\\\":\\\"S1\\\"},{\\\"name\\\":\\\"N2\\\",\\\"url\\\":\\\"U2\\\"},{\\\"name\\\":\\\"N3\\\",\\\"url\\\":3,\\\"snippet\\\":\\\"S3\\\"},\\\"loose\\\",{\\\"name\\\":\\\"N4\\\",\\\"url\\\":\\\"U4\\\",\\\"snippet\\\":\\\"S4\\\"}]}\"}}]"
\* a SEARCH step and a FINAL step whose content.answer is AnswerBareText
StepsBareText ==
    "[{\"step_type\":\"SEARCH\",\"content\":{}},{\"step_type\":\"FINAL\",\"content\":{\"answer\":\"{\\\"answer\\\":\\\"A\\\"}\"}}]"
\* a SEARCH step and a FINAL step whose content.answer is AnswerResultsOnlyText
StepsResultsOnlyText ==
    "[{\"step_type\":\"SEARCH\",\"content\":{}},{\"step_type\":\"FINAL\",\"content\":{\"answer\":\"{\\\"web_results\\\":[{\\\"name\\\":\\\"Only\\\",\\\"url\\\":\\\"https://only.example\\\",\\\"snippet\\\":\\\"Results\\\"}]}\"}}]"
\* a SEARCH step and a FINAL step whose content.answer is AnswerNumberText
StepsNumberText ==
    "[{\"step_type\":\"SEARCH\",\"content\":{}},{\"step_type\":\"FINAL\",\"content\":{\"answer\":\"42\"}}]"
\* a SEARCH step and a FINAL step whose content.answer is AnswerPlainText
StepsPlainText ==
    "[{\"step_type\":\"SEARCH\",\"content\":{}},{\"step_type\":\"FINAL\",\"content\":{\"answer\":\"Paris is the capital\"}}]"
\* steps without a FINAL step (parse.rs 189-194)
StepsNoFinalText ==
    "[{\"step_type\":\"SEARCH\",\"content\":{}}]"
\* a FINAL step without content
StepsNoContentText ==
    "[{\"step_type\":\"SEARCH\",\"content\":{}},{\"step_type\":\"FINAL\"}]"
\* a FINAL step whose content has no answer
StepsNoAnswerText ==
    "[{\"step_type\":\"FINAL\",\"content\":{}}]"
\* a FINAL step whose content.answer is a number
StepsAnswerNumText ==
    "[{\"step_type\":\"FINAL\",\"content\":{\"answer\":5}}]"
\* a FINAL step without content before a FINAL step with AnswerFullText
StepsTwoFinalText ==
    "[{\"step_type\":\"FINAL\"},{\"step_type\":\"FINAL\",\"content\":{\"answer\":\"{\\\"answer\\\":\\\"Nested answer\\\",\\\"web_results\\\":[{\\\"name\\\":\\\"Source\\\",\\\"url\\\":\\\"https://example.com\\\",\\\"snippet\\\":\\\"Example\\\"}]}\"}}]"
\* a FINAL step whose content.answer is a number before a FINAL step with AnswerFullText
StepsNumThenFinalText ==
    "[{\"step_type\":\"FINAL\",\"content\":{\"answer\":5}},{\"step_type\":\"FINAL\",\"content\":{\"answer\":\"{\\\"answer\\\":\\\"Nested answer\\\",\\\"web_results\\\":[{\\\"name\\\":\\\"Source\\\",\\\"url\\\":\\\"https://example.com\\\",\\\"snippet\\\":\\\"Example\\\"}]}\"}}]"
\* a FINAL step whose content.answer is no JSON before a FINAL step with AnswerFullText
StepsPlainThenFinalText ==
    "[{\"step_type\":\"FINAL\",\"content\":{\"answer\":\"Paris is the capital\"}},{\"step_type\":\"SEARCH\",\"content\":{}},{\"step_type\":\"FINAL\",\"content\":{\"answer\":\"{\\\"answer\\\":\\\"Nested answer\\\",\\\"web_results\\\":[{\\\"name\\\":\\\"Source\\\",\\\"url\\\":\\\"https://example.com\\\",\\\"snippet\\\":\\\"Example\\\"}]}\"}}]"
\* a FINAL step with AnswerBareText before a FINAL step with AnswerFullText
StepsBareThenFullText ==
    "[{\"step_type\":\"FINAL\",\"content\":{\"answer\":\"{\\\"answer\\\":\\\"A\\\"}\"}},{\"step_type\":\"FINAL\",\"content\":{\"answer\":\"{\\\"answer\\\":\\\"Nested answer\\\",\\\"web_results\\\":[{\\\"name\\\":\\\"Source\\\",\\\"url\\\":\\\"https://example.com\\\",\\\"snippet\\\":\\\"Example\\\"}]}\"}}]"
\* JSON, but no array
TextObjectText ==
    "{\"a\":1}"
\* no JSON
TextPlainText ==
    "plain words"

\* The texts serde_json accepts, with the Value each parses to: the nested
\* texts that are JSON, and the payloads made of an optional "text" (a nested
\* text as a string, an array of steps, a number), an optional "answer" (a
\* string, a number) and optional "backend_uuid", "attachments" and "status"
JsonTexts ==
    <<
      [text |-> AnswerFullText,
       value |-> JObj([answer |-> JStr("Nested answer"), web_results |-> JArr(<<JObj([name |-> JStr("Source"), url |-> JStr("https://example.com"), snippet |-> JStr("Example")])>>)])],
      [text |-> AnswerMixedText,
       value |-> JObj([answer |-> JStr("A"), web_results |-> JArr(<<JObj([name |-> JStr("N1"), url |-> JStr("U1"), snippet |-> JStr("S1")]), JObj([name |-> JStr("N2"), url |-> JStr("U2")]), JObj([name |-> JStr("N3"), url |-> JNum(3), snippet |-> JStr("S3")]), JStr("loose"), JObj([name |-> JStr("N4"), url |-> JStr("U4"), snippet |-> JStr("S4")])>>)])],
      [text |-> AnswerBareText,
       value |-> JObj([answer |-> JStr("A")])],
      [text |-> AnswerResultsOnlyText,
       value |-> JObj([web_results |-> JArr(<<JObj([name |-> JStr("Only"), url |-> JStr("https://only.example"), snippet |-> JStr("Results")])>>)])],
      [text |-> AnswerNumberText,
       value |-> JNum(42)],
      [text |-> StepsFullText,
       value |-> JArr(<<JObj([step_type |-> JStr("SEARCH"), content |-> JObj(<<>>)]), JObj([step_type |-> JStr("FINAL"), content |-> JObj([answer |-> JStr(AnswerFullText)])])>>)],
      [text |-> StepsMixedText,
       value |-> JArr(<<JObj([step_type |-> JStr("SEARCH"), content |-> JObj(<<>>)]), JObj([step_type |-> JStr("FINAL"), content |-> JObj([answer |-> JStr(AnswerMixedText)])])>>)],
      [text |-> StepsBareText,
       value |-> JArr(<<JObj([step_type |-> JStr("SEARCH"), content |-> JObj(<<>>)]), JObj([step_type |-> JStr("FINAL"), content |-> JObj([answer |-> JStr(AnswerBareText)])])>>)],
      [text |-> StepsResultsOnlyText,
       value |-> JArr(<<JObj([step_type |-> JStr("SEARCH"), content |-> JObj(<<>>)]), JObj([step_type |-> JStr("FINAL"), content |-> JObj([answer |-> JStr(AnswerResultsOnlyText)])])>>)],
      [text |-> StepsNumberText,
       value |-> JArr(<<JObj([step_type |-> JStr("SEARCH"), content |-> JObj(<<>>)]), JObj([step_type |-> JStr("FINAL"), content |-> JObj([answer |-> JStr(AnswerNumberText)])])>>)],
      [text |-> StepsPlainText,
       value |-> JArr(<<JObj([step_type |-> JStr("SEARCH"), content |-> JObj(<<>>)]), JObj([step_type |-> JStr("FINAL"), content |-> JObj([answer |-> JStr(AnswerPlainText)])])>>)],
      [text |-> StepsNoFinalText,
       value |-> JArr(<<JObj([step_type |-> JStr("SEARCH"), content |-> JObj(<<>>)])>>)],
      [text |-> StepsNoContentText,
       value |-> JArr(<<JObj([step_type |-> JStr("SEARCH"), content |-> JObj(<<>>)]), JObj([step_type |-> JStr("FINAL")])>>)],
      [text |-> StepsNoAnswerText,
       value |-> JArr(<<JObj([step_type |-> JStr("FINAL"), content |-> JObj(<<>>)])>>)],
      [text |-> StepsAnswerNumText,
       value |-> JArr(<<JObj([step_type |-> JStr("FINAL"), content |-> JObj([answer |-> JNum(5)])])>>)],
      [text |-> StepsTwoFinalText,
       value |-> JArr(<<JObj([step_type |-> JStr("FINAL")]), JObj([step_type |-> JStr("FINAL"), content |-> JObj([answer |-> JStr(AnswerFullText)])])>>)],
      [text |-> StepsNumThenFinalText,
       value |-> JArr(<<JObj([step_type |-> JStr("FINAL"), content |-> JObj([answer |-> JNum(5)])]), JObj([step_type |-> JStr("FINAL"), content |-> JObj([answer |-> JStr(AnswerFullText)])])>>)],
      [text |-> StepsPlainThenFinalText,
       value |-> JArr(<<JObj([step_type |-> JStr("FINAL"), content |-> JObj([answer |-> JStr(AnswerPlainText)])]), JObj([step_type |-> JStr("SEARCH"), content |-> JObj(<<>>)]), JObj([step_type |-> JStr("FINAL"), content |-> JObj([answer |-> JStr(AnswerFullText)])])>>)],
      [text |-> StepsBareThenFullText,
       value |-> JArr(<<JObj([step_type |-> JStr("FINAL"), content |-> JObj([answer |-> JStr(AnswerBareText)])]), JObj([step_type |-> JStr("FINAL"), content |-> JObj([answer |-> JStr(AnswerFullText)])])>>)],
      [text |-> TextObjectText,
       value |-> JObj([a |-> JNum(1)])],
      [text |-> "{}",
       value |-> JObj(<<>>)],
      [text |-> "{\"answer\":\"Top level answer\"}",
       value |-> JObj([answer |-> JStr("Top level answer")])],
      [text |-> "{\"answer\":\"Top level answer\",\"backend_uuid\":\"abc-123\",\"attachments\":[\"url1\",5,\"url2\"],\"status\":\"COMPLETED\"}",
       value |-> JObj([answer |-> JStr("Top level answer"), backend_uuid |-> JStr("abc-123"), attachments |-> JArr(<<JStr("url1"), JNum(5), JStr("url2")>>), status |-> JStr("COMPLETED")])],
      [text |-> "{\"answer\":7}",
       value |-> JObj([answer |-> JNum(7)])],
      [text |-> "{\"text\":\"[{\\\"step_type\\\":\\\"SEARCH\\\",\\\"content\\\":{}},{\\\"step_type\\\":\\\"FINAL\\\",\\\"content\\\":{\\\"answer\\\":\\\"{\\\\\\\"answer\\\\\\\":\\\\\\\"Nested answer\\\\\\\",\\\\\\\"web_results\\\\\\\":[{\\\\\\\"name\\\\\\\":\\\\\\\"Source\\\\\\\",\\\\\\\"url\\\\\\\":\\\\\\\"https://example.com\\\\\\\",\\\\\\\"snippet\\\\\\\":\\\\\\\"Example\\\\\\\"}]}\\\"}}]\"}",
       value |-> JObj([text |-> JStr(StepsFullText)])],
      [text |-> "{\"text\":\"[{\\\"step_type\\\":\\\"SEARCH\\\",\\\"content\\\":{}},{\\\"step_type\\\":\\\"FINAL\\\",\\\"content\\\":{\\\"answer\\\":\\\"{\\\\\\\"answer\\\\\\\":\\\\\\\"Nested answer\\\\\\\",\\\\\\\"web_results\\\\\\\":[{\\\\\\\"name\\\\\\\":\\\\\\\"Source\\\\\\\",\\\\\\\"url\\\\\\\":\\\\\\\"https://example.com\\\\\\\",\\\\\\\"snippet\\\\\\\":\\\\\\\"Example\\\\\\\"}]}\\\"}}]\",\"answer\":\"Top level answer\"}",
       value |-> JObj([text |-> JStr(StepsFullText), answer |-> JStr("Top level answer")])],
      [text |-> "{\"text\":\"[{\\\"step_type\\\":\\\"SEARCH\\\",\\\"content\\\":{}},{\\\"step_type\\\":\\\"FINAL\\\",\\\"content\\\":{\\\"answer\\\":\\\"{\\\\\\\"answer\\\\\\\":\\\\\\\"Nested answer\\\\\\\",\\\\\\\"web_results\\\\\\\":[{\\\\\\\"name\\\\\\\":\\\\\\\"Source\\\\\\\",\\\\\\\"url\\\\\\\":\\\\\\\"https://example.com\\\\\\\",\\\\\\\"snippet\\\\\\\":\\\\\\\"Example\\\\\\\"}]}\\\"}}]\",\"answer\":\"Top level answer\",\"backend_uuid\":\"abc-123\",\"attachments\":[\"url1\",5,\"url2\"],\"status\":\"COMPLETED\"}",
       value |-> JObj([text |-> JStr(StepsFullText), answer |-> JStr("Top level answer"), backend_uuid |-> JStr("abc-123"), attachments |-> JArr(<<JStr("url1"), JNum(5), JStr("url2")>>), status |-> JStr("COMPLETED")])],
      [text |-> "{\"text\":\"[{\\\"step_type\\\":\\\"SEARCH\\\",\\\"content\\\":{}},{\\\"step_type\\\":\\\"FINAL\\\",\\\"content\\\":{\\\"answer\\\":\\\"{\\\\\\\"answer\\\\\\\":\\\\\\\"Nested answer\\\\\\\",\\\\\\\"web_results\\\\\\\":[{\\\\\\\"name\\\\\\\":\\\\\\\"Source\\\\\\\",\\\\\\\"url\\\\\\\":\\\\\\\"https://example.com\\\\\\\",\\\\\\\"snippet\\\\\\\":\\\\\\\"Example\\\\\\\"}]}\\\"}}]\",\"answer\":7}",
       value |-> JObj([text |-> JStr(StepsFullText), answer |-> JNum(7)])],
      [text |-> "{\"text\":\"[{\\\"step_type\\\":\\\"SEARCH\\\",\\\"content\\\":{}},{\\\"step_type\\\":\\\"FINAL\\\",\\\"content\\\":{\\\"answer\\\":\\\"{\\\\\\\"answer\\\\\\\":\\\\\\\"A\\\\\\\",\\\\\\\"web_results\\\\\\\":[{\\\\\\\"name\\\\\\\":\\\\\\\"N1\\\\\\\",\\\\\\\"url\\\\\\\":\\\\\\\"U1\\\\\\\",\\\\\\\"snippet\\\\\\\":\\\\\\\"S1\\\\\\\"},{\\\\\\\"name\\\\\\\":\\\\\\\"N2\\\\\\\",\\\\\\\"url\\\\\\\":\\\\\\\"U2\\\\\\\"},{\\\\\\\"name\\\\\\\":\\\\\\\"N3\\\\\\\",\\\\\\\"url\\\\\\\":3,\\\\\\\"snippet\\\\\\\":\\\\\\\"S3\\\\\\\"},\\\\\\\"loose\\\\\\\",{\\\\\\\"name\\\\\\\":\\\\\\\"N4\\\\\\\",\\\\\\\"url\\\\\\\":\\\\\\\"U4\\\\\\\",\\\\\\\"snippet\\\\\\\":\\\\\\\"S4\\\\\\\"}]}\\\"}}]\"}",
       value |-> JObj([text |-> JStr(StepsMixedText)])],
      [text |-> "{\"text\":\"[{\\\"step_type\\\":\\\"SEARCH\\\",\\\"content\\\":{}},{\\\"step_type\\\":\\\"FINAL\\\",\\\"content\\\":{\\\"answer\\\":\\\"{\\\\\\\"answer\\\\\\\":\\\\\\\"A\\\\\\\",\\\\\\\"web_results\\\\\\\":[{\\\\\\\"name\\\\\\\":\\\\\\\"N1\\\\\\\",\\\\\\\"url\\\\\\\":\\\\\\\"U1\\\\\\\",\\\\\\\"snippet\\\\\\\":\\\\\\\"S1\\\\\\\"},{\\\\\\\"name\\\\\\\":\\\\\\\"N2\\\\\\\",\\\\\\\"url\\\\\\\":\\\\\\\"U2\\\\\\\"},{\\\\\\\"name\\\\\\\":\\\\\\\"N3\\\\\\\",\\\\\\\"url\\\\\\\":3,\\\\\\\"snippet\\\\\\\":\\\\\\\"S3\\\\\\\"},\\\\\\\"loose\\\\\\\",{\\\\\\\"name\\\\\\\":\\\\\\\"N4\\\\\\\",\\\\\\\"url\\\\\\\":\\\\\\\"U4\\\\\\\",\\\\\\\"snippet\\\\\\\":\\\\\\\"S4\\\\\\\"}]}\\\"}}]\",\"answer\":\"Top level answer\"}",
       value |-> JObj([text |-> JStr(StepsMixedText), answer |-> JStr("Top level answer")])],
      [text |-> "{\"text\":\"[{\\\"step_type\\\":\\\"SEARCH\\\",\\\"content\\\":{}},{\\\"step_type\\\":\\\"FINAL\\\",\\\"content\\\":{\\\"answer\\\":\\\"{\\\\\\\"answer\\\\\\\":\\\\\\\"A\\\\\\\",\\\\\\\"web_results\\\\\\\":[{\\\\\\\"name\\\\\\\":\\\\\\\"N1\\\\\\\",\\\\\\\"url\\\\\\\":\\\\\\\"U1\\\\\\\",\\\\\\\"snippet\\\\\\\":\\\\\\\"S1\\\\\\\"},{\\\\\\\"name\\\\\\\":\\\\\\\"N2\\\\\\\",\\\\\\\"url\\\\\\\":\\\\\\\"U2\\\\\\\"},{\\\\\\\"name\\\\\\\":\\\\\\\"N3\\\\\\\",\\\\\\\"url\\\\\\\":3,\\\\\\\"snippet\\\\\\\":\\\\\\\"S3\\\\\\\"},\\\\\\\"loose\\\\\\\",{\\\\\\\"name\\\\\\\":\\\\\\\"N4\\\\\\\",\\\\\\\"url\\\\\\\":\\\\\\\"U4\\\\\\\",\\\\\\\"snippet\\\\\\\":\\\\\\\"S4\\\\\\\"}]}\\\"}}]\",\"answer\":\"Top level answer\",\"backend_uuid\":\"abc-123\",\"attachments\":[\"url1\",5,\"url2\"],\"status\":\"COMPLETED\"}",
       value |-> JObj([text |-> JStr(StepsMixedText), answer |-> JStr("Top level answer"), backend_uuid |-> JStr("abc-123"), attachments |-> JArr(<<JStr("url1"), JNum(5), JStr("url2")>>), status |-> JStr("COMPLETED")])],
      [text |-> "{\"text\":\"[{\\\"step_type\\\":\\\"SEARCH\\\",\\\"content\\\":{}},{\\\"step_type\\\":\\\"FINAL\\\",\\\"content\\\":{\\\"answer\\\":\\\"{\\\\\\\"answer\\\\\\\":\\\\\\\"A\\\\\\\",\\\\\\\"web_results\\\\\\\":[{\\\\\\\"name\\\\\\\":\\\\\\\"N1\\\\\\\",\\\\\\\"url\\\\\\\":\\\\\\\"U1\\\\\\\",\\\\\\\"snippet\\\\\\\":\\\\\\\"S1\\\\\\\"},{\\\\\\\"name\\\\\\\":\\\\\\\"N2\\\\\\\",\\\\\\\"url\\\\\\\":\\\\\\\"U2\\\\\\\"},{\\\\\\\"name\\\\\\\":\\\\\\\"N3\\\\\\\",\\\\\\\"url\\\\\\\":3,\\\\\\\"snippet\\\\\\\":\\\\\\\"S3\\\\\\\"},\\\\\\\"loose\\\\\\\",{\\\\\\\"name\\\\\\\":\\\\\\\"N4\\\\\\\",\\\\\\\"url\\\\\\\":\\\\\\\"U4\\\\\\\",\\\\\\\"snippet\\\\\\\":\\\\\\\"S4\\\\\\\"}]}\\\"}}]\",\"answer\":7}",
       value |-> JObj([text |-> JStr(StepsMixedText), answer |-> JNum(7)])],
      [text |-> "{\"text\":\"[{\\\"step_type\\\":\\\"SEARCH\\\",\\\"content\\\":{}},{\\\"step_type\\\":\\\"FINAL\\\",\\\"content\\\":{\\\"answer\\\":\\\"{\\\\\\\"answer\\\\\\\":\\\\\\\"A\\\\\\\"}\\\"}}]\"}",
       value |-> JObj([text |-> JStr(StepsBareText)])],
      [text |-> "{\"text\":\"[{\\\"step_type\\\":\\\"SEARCH\\\",\\\"content\\\":{}},{\\\"step_type\\\":\\\"FINAL\\\",\\\"content\\\":{\\\"answer\\\":\\\"{\\\\\\\"answer\\\\\\\":\\\\\\\"A\\\\\\\"}\\\"}}]\",\"answer\":\"Top level answer\"}",
       value |-> JObj([text |-> JStr(StepsBareText), answer |-> JStr("Top level answer")])],
      [text |-> "{\"text\":\"[{\\\"step_type\\\":\\\"SEARCH\\\",\\\"content\\\":{}},{\\\"step_type\\\":\\\"FINAL\\\",\\\"content\\\":{\\\"answer\\\":\\\"{\\\\\\\"answer\\\\\\\":\\\\\\\"A\\\\\\\"}\\\"}}]\",\"answer\":\"Top level answer\",\"backend_uuid\":\"abc-123\",\"attachments\":[\"url1\",5,\"url2\"],\"status\":\"COMPLETED\"}",
       value |-> JObj([text |-> JStr(StepsBareText), answer |-> JStr("Top level answer"), backend_uuid |-> JStr("abc-123"), attachments |-> JArr(<<JStr("url1"), JNum(5), JStr("url2")>>), status |-> JStr("COMPLETED")])],
      [text |-> "{\"text\":\"[{\\\"step_type\\\":\\\"SEARCH\\\",\\\"content\\\":{}},{\\\"step_type\\\":\\\"FINAL\\\",\\\"content\\\":{\\\"answer\\\":\\\"{\\\\\\\"answer\\\\\\\":\\\\\\\"A\\\\\\\"}\\\"}}]\",\"answer\":7}",
       value |-> JObj([text |-> JStr(StepsBareText), answer |-> JNum(7)])],
      [text |-> "{\"text\":\"[{\\\"step_type\\\":\\\"SEARCH\\\",\\\"content\\\":{}},{\\\"step_type\\\":\\\"FINAL\\\",\\\"content\\\":{\\\"answer\\\":\\\"{\\\\\\\"web_results\\\\\\\":[{\\\\\\\"name\\\\\\\":\\\\\\\"Only\\\\\\\",\\\\\\\"url\\\\\\\":\\\\\\\"https://only.example\\\\\\\",\\\\\\\"snippet\\\\\\\":\\\\\\\"Results\\\\\\\"}]}\\\"}}]\"}",
       value |-> JObj([text |-> JStr(StepsResultsOnlyText)])],
      [text |-> "{\"text\":\"[{\\\"step_type\\\":\\\"SEARCH\\\",\\\"content\\\":{}},{\\\"step_type\\\":\\\"FINAL\\\",\\\"content\\\":{\\\"answer\\\":\\\"{\\\\\\\"web_results\\\\\\\":[{\\\\\\\"name\\\\\\\":\\\\\\\"Only\\\\\\\",\\\\\\\"url\\\\\\\":\\\\\\\"https://only.example\\\\\\\",\\\\\\\"snippet\\\\\\\":\\\\\\\"Results\\\\\\\"}]}\\\"}}]\",\"answer\":\"Top level answer\"}",
       value |-> JObj([text |-> JStr(StepsResultsOnlyText), answer |-> JStr("Top level answer")])],
      [text |-> "{\"text\":\"[{\\\"step_type\\\":\\\"SEARCH\\\",\\\"content\\\":{}},{\\\"step_type\\\":\\\"FINAL\\\",\\\"content\\\":{\\\"answer\\\":\\\"{\\\\\\\"web_results\\\\\\\":[{\\\\\\\"name\\\\\\\":\\\\\\\"Only\\\\\\\",\\\\\\\"url\\\\\\\":\\\\\\\"https://only.example\\\\\\\",\\\\\\\"snippet\\\\\\\":\\\\\\\"Results\\\\\\\"}]}\\\"}}]\",\"answer\":\"Top level answer\",\"backend_uuid\":\"abc-123\",\"attachments\":[\"url1\",5,\"url2\"],\"status\":\"COMPLETED\"}",
       value |-> JObj([text |-> JStr(StepsResultsOnlyText), answer |-> JStr("Top level answer"), backend_uuid |-> JStr("abc-123"), attachments |-> JArr(<<JStr("url1"), JNum(5), JStr("url2")>>), status |-> JStr("COMPLETED")])],
      [text |-> "{\"text\":\"[{\\\"step_type\\\":\\\"SEARCH\\\",\\\"content\\\":{}},{\\\"step_type\\\":\\\"FINAL\\\",\\\"content\\\":{\\\"answer\\\":\\\"{\\\\\\\"web_results\\\\\\\":[{\\\\\\\"name\\\\\\\":\\\\\\\"Only\\\\\\\",\\\\\\\"url\\\\\\\":\\\\\\\"https://only.example\\\\\\\",\\\\\\\"snippet\\\\\\\":\\\\\\\"Results\\\\\\\"}]}\\\"}}]\",\"answer\":7}",
       value |-> JObj([text |-> JStr(StepsResultsOnlyText), answer |-> JNum(7)])],
      [text |-> "{\"text\":\"[{\\\"step_type\\\":\\\"SEARCH\\\",\\\"content\\\":{}},{\\\"step_type\\\":\\\"FINAL\\\",\\\"content\\\":{\\\"answer\\\":\\\"42\\\"}}]\"}",
       value |-> JObj([text |-> JStr(StepsNumberText)])],
      [text |-> "{\"text\":\"[{\\\"step_type\\\":\\\"SEARCH\\\",\\\"content\\\":{}},{\\\"step_type\\\":\\\"FINAL\\\",\\\"content\\\":{\\\"answer\\\":\\\"42\\\"}}]\",\"answer\":\"Top level answer\"}",
       value |-> JObj([text |-> JStr(StepsNumberText), answer |-> JStr("Top level answer")])],
      [text |-> "{\"text\":\"[{\\\"step_type\\\":\\\"SEARCH\\\",\\\"content\\\":{}},{\\\"step_type\\\":\\\"FINAL\\\",\\\"content\\\":{\\\"answer\\\":\\\"42\\\"}}]\",\"answer\":\"Top level answer\",\"backend_uuid\":\"abc-123\",\"attachments\":[\"url1\",5,\"url2\"],\"status\":\"COMPLETED\"}",
       value |-> JObj([text |-> JStr(StepsNumberText), answer |-> JStr("Top level answer"), backend_uuid |-> JStr("abc-123"), attachments |-> JArr(<<JStr("url1"), JNum(5), JStr("url2")>>), status |-> JStr("COMPLETED")])],
      [text |-> "{\"text\":\"[{\\\"step_type\\\":\\\"SEARCH\\\",\\\"content\\\":{}},{\\\"step_type\\\":\\\"FINAL\\\",\\\"content\\\":{\\\"answer\\\":\\\"42\\\"}}]\",\"answer\":7}",
       value |-> JObj([text |-> JStr(StepsNumberText), answer |-> JNum(7)])],
      [text |-> "{\"text\":\"[{\\\"step_type\\\":\\\"SEARCH\\\",\\\"content\\\":{}},{\\\"step_type\\\":\\\"FINAL\\\",\\\"content\\\":{\\\"answer\\\":\\\"Paris is the capital\\\"}}]\"}",
       value |-> JObj([text |-> JStr(StepsPlainText)])],
      [text |-> "{\"text\":\"[{\\\"step_type\\\":\\\"SEARCH\\\",\\\"content\\\":{}},{\\\"step_type\\\":\\\"FINAL\\\",\\\"content\\\":{\\\"answer\\\":\\\"Paris is the capital\\\"}}]\",\"answer\":\"Top level answer\"}",
       value |-> JObj([text |-> JStr(StepsPlainText), answer |-> JStr("Top level answer")])],
      [text |-> "{\"text\":\"[{\\\"step_type\\\":\\\"SEARCH\\\",\\\"content\\\":{}},{\\\"step_type\\\":\\\"FINAL\\\",\\\"content\\\":{\\\"answer\\\":\\\"Paris is the capital\\\"}}]\",\"answer\":\"Top level answer\",\"backend_uuid\":\"abc-123\",\"attachments\":[\"url1\",5,\"url2\"],\"status\":\"COMPLETED\"}",
       value |-> JObj([text |-> JStr(StepsPlainText), answer |-> JStr("Top level answer"), backend_uuid |-> JStr("abc-123"), attachments |-> JArr(<<JStr("url1"), JNum(5), JStr("url2")>>), status |-> JStr("COMPLETED")])],
      [text |-> "{\"text\":\"[{\\\"step_type\\\":\\\"SEARCH\\\",\\\"content\\\":{}},{\\\"step_type\\\":\\\"FINAL\\\",\\\"content\\\":{\\\"answer\\\":\\\"Paris is the capital\\\"}}]\",\"answer\":7}",
       value |-> JObj([text |-> JStr(StepsPlainText), answer |-> JNum(7)])],
      [text |-> "{\"text\":\"[{\\\"step_type\\\":\\\"SEARCH\\\",\\\"content\\\":{}}]\"}",
       value |-> JObj([text |-> JStr(StepsNoFinalText)])],
      [text |-> "{\"text\":\"[{\\\"step_type\\\":\\\"SEARCH\\\",\\\"content\\\":{}}]\",\"answer\":\"Top level answer\"}",
       value |-> JObj([text |-> JStr(StepsNoFinalText), answer |-> JStr("Top level answer")])],
      [text |-> "{\"text\":\"[{\\\"step_type\\\":\\\"SEARCH\\\",\\\"content\\\":{}}]\",\"answer\":\"Top level answer\",\"backend_uuid\":\"abc-123\",\"attachments\":[\"url1\",5,\"url2\"],\"status\":\"COMPLETED\"}",
       value |-> JObj([text |-> JStr(StepsNoFinalText), answer |-> JStr("Top level answer"), backend_uuid |-> JStr("abc-123"), attachments |-> JArr(<<JStr("url1"), JNum(5), JStr("url2")>>), status |-> JStr("COMPLETED")])],
      [text |-> "{\"text\":\"[{\\\"step_type\\\":\\\"SEARCH\\\",\\\"content\\\":{}}]\",\"answer\":7}",
       value |-> JObj([text |-> JStr(StepsNoFinalText), answer |-> JNum(7)])],
      [text |-> "{\"text\":\"[{\\\"step_type\\\":\\\"SEARCH\\\",\\\"content\\\":{}},{\\\"step_type\\\":\\\"FINAL\\\"}]\"}",
       value |-> JObj([text |-> JStr(StepsNoContentText)])],
      [text |-> "{\"text\":\"[{\\\"step_type\\\":\\\"SEARCH\\\",\\\"content\\\":{}},{\\\"step_type\\\":\\\"FINAL\\\"}]\",\"answer\":\"Top level answer\"}",
       value |-> JObj([text |-> JStr(StepsNoContentText), answer |-> JStr("Top level answer")])],
      [text |-> "{\"text\":\"[{\\\"step_type\\\":\\\"SEARCH\\\",\\\"content\\\":{}},{\\\"step_type\\\":\\\"FINAL\\\"}]\",\"answer\":\"Top level answer\",\"backend_uuid\":\"abc-123\",\"attachments\":[\"url1\",5,\"url2\"],\"status\":\"COMPLETED\"}",
       value |-> JObj([text |-> JStr(StepsNoContentText), answer |-> JStr("Top level answer"), backend_uuid |-> JStr("abc-123"), attachments |-> JArr(<<JStr("url1"), JNum(5), JStr("url2")>>), status |-> JStr("COMPLETED")])],
      [text |-> "{\"text\":\"[{\\\"step_type\\\":\\\"SEARCH\\\",\\\"content\\\":{}},{\\\"step_type\\\":\\\"FINAL\\\"}]\",\"answer\":7}",
       value |-> JObj([text |-> JStr(StepsNoContentText), answer |-> JNum(7)])],
      [text |-> "{\"text\":\"[{\\\"step_type\\\":\\\"FINAL\\\",\\\"content\\\":{}}]\"}",
       value |-> JObj([text |-> JStr(StepsNoAnswerText)])],
      [text |-> "{\"text\":\"[{\\\"step_type\\\":\\\"FINAL\\\",\\\"content\\\":{}}]\",\"answer\":\"Top level answer\"}",
       value |-> JObj([text |-> JStr(StepsNoAnswerText), answer |-> JStr("Top level answer")])],
      [text |-> "{\"text\":\"[{\\\"step_type\\\":\\\"FINAL\\\",\\\"content\\\":{}}]\",\"answer\":\"Top level answer\",\"backend_uuid\":\"abc-123\",\"attachments\":[\"url1\",5,\"url2\"],\"status\":\"COMPLETED\"}",
       value |-> JObj([text |-> JStr(StepsNoAnswerText), answer |-> JStr("Top level answer"), backend_uuid |-> JStr("abc-123"), attachments |-> JArr(<<JStr("url1"), JNum(5), JStr("url2")>>), status |-> JStr("COMPLETED")])],
      [text |-> "{\"text\":\"[{\\\"step_type\\\":\\\"FINAL\\\",\\\"content\\\":{}}]\",\"answer\":7}",
       value |-> JObj([text |-> JStr(StepsNoAnswerText), answer |-> JNum(7)])],
      [text |-> "{\"text\":\"[{\\\"step_type\\\":\\\"FINAL\\\",\\\"content\\\":{\\\"answer\\\":5}}]\"}",
       value |-> JObj([text |-> JStr(StepsAnswerNumText)])],
      [text |-> "{\"text\":\"[{\\\"step_type\\\":\\\"FINAL\\\",\\\"content\\\":{\\\"answer\\\":5}}]\",\"answer\":\"Top level answer\"}",
       value |-> JObj([text |-> JStr(StepsAnswerNumText), answer |-> JStr("Top level answer")])],
      [text |-> "{\"text\":\"[{\\\"step_type\\\":\\\"FINAL\\\",\\\"content\\\":{\\\"answer\\\":5}}]\",\"answer\":\"Top level answer\",\"backend_uuid\":\"abc-123\",\"attachments\":[\"url1\",5,\"url2\"],\"status\":\"COMPLETED\"}",
       value |-> JObj([text |-> JStr(StepsAnswerNumText), answer |-> JStr("Top level answer"), backend_uuid |-> JStr("abc-123"), attachments |-> JArr(<<JStr("url1"), JNum(5), JStr("url2")>>), status |-> JStr("COMPLETED")])],
      [text |-> "{\"text\":\"[{\\\"step_type\\\":\\\"FINAL\\\",\\\"content\\\":{\\\"answer\\\":5}}]\",\"answer\":7}",
       value |-> JObj([text |-> JStr(StepsAnswerNumText), answer |-> JNum(7)])],
      [text |-> "{\"text\":\"[{\\\"step_type\\\":\\\"FINAL\\\"},{\\\"step_type\\\":\\\"FINAL\\\",\\\"content\\\":{\\\"answer\\\":\\\"{\\\\\\\"answer\\\\\\\":\\\\\\\"Nested answer\\\\\\\",\\\\\\\"web_results\\\\\\\":[{\\\\\\\"name\\\\\\\":\\\\\\\"Source\\\\\\\",\\\\\\\"url\\\\\\\":\\\\\\\"https://example.com\\\\\\\",\\\\\\\"snippet\\\\\\\":\\\\\\\"Example\\\\\\\"}]}\\\"}}]\"}",
       value |-> JObj([text |-> JStr(StepsTwoFinalText)])],
      [text |-> "{\"text\":\"[{\\\"step_type\\\":\\\"FINAL\\\"},{\\\"step_type\\\":\\\"FINAL\\\",\\\"content\\\":{\\\"answer\\\":\\\"{\\\\\\\"answer\\\\\\\":\\\\\\\"Nested answer\\\\\\\",\\\\\\\"web_results\\\\\\\":[{\\\\\\\"name\\\\\\\":\\\\\\\"Source\\\\\\\",\\\\\\\"url\\\\\\\":\\\\\\\"https://example.com\\\\\\\",\\\\\\\"snippet\\\\\\\":\\\\\\\"Example\\\\\\\"}]}\\\"}}]\",\"answer\":\"Top level answer\"}",
       value |-> JObj([text |-> JStr(StepsTwoFinalText), answer |-> JStr("Top level answer")])],
      [text |-> "{\"text\":\"[{\\\"step_type\\\":\\\"FINAL\\\"},{\\\"step_type\\\":\\\"FINAL\\\",\\\"content\\\":{\\\"answer\\\":\\\"{\\\\\\\"answer\\\\\\\":\\\\\\\"Nested answer\\\\\\\",\\\\\\\"web_results\\\\\\\":[{\\\\\\\"name\\\\\\\":\\\\\\\"Source\\\\\\\",\\\\\\\"url\\\\\\\":\\\\\\\"https://example.com\\\\\\\",\\\\\\\"snippet\\\\\\\":\\\\\\\"Example\\\\\\\"}]}\\\"}}]\",\"answer\":\"Top level answer\",\"backend_uuid\":\"abc-123\",\"attachments\":[\"url1\",5,\"url2\"],\"status\":\"COMPLETED\"}",
       value |-> JObj([text |-> JStr(StepsTwoFinalText), answer |-> JStr("Top level answer"), backend_uuid |-> JStr("abc-123"), attachments |-> JArr(<<JStr("url1"), JNum(5), JStr("url2")>>), status |-> JStr("COMPLETED")])],
      [text |-> "{\"text\":\"[{\\\"step_type\\\":\\\"FINAL\\\"},{\\\"step_type\\\":\\\"FINAL\\\",\\\"content\\\":{\\\"answer\\\":\\\"{\\\\\\\"answer\\\\\\\":\\\\\\\"Nested answer\\\\\\\",\\\\\\\"web_results\\\\\\\":[{\\\\\\\"name\\\\\\\":\\\\\\\"Source\\\\\\\",\\\\\\\"url\\\\\\\":\\\\\\\"https://example.com\\\\\\\",\\\\\\\"snippet\\\\\\\":\\\\\\\"Example\\\\\\\"}]}\\\"}}]\",\"answer\":7}",
       value |-> JObj([text |-> JStr(StepsTwoFinalText), answer |-> JNum(7)])],
      [text |-> "{\"text\":\"[{\\\"step_type\\\":\\\"FINAL\\\",\\\"content\\\":{\\\"answer\\\":5}},{\\\"step_type\\\":\\\"FINAL\\\",\\\"content\\\":{\\\"answer\\\":\\\"{\\\\\\\"answer\\\\\\\":\\\\\\\"Nested answer\\\\\\\",\\\\\\\"web_results\\\\\\\":[{\\\\\\\"name\\\\\\\":\\\\\\\"Source\\\\\\\",\\\\\\\"url\\\\\\\":\\\\\\\"https://example.com\\\\\\\",\\\\\\\"snippet\\\\\\\":\\\\\\\"Example\\\\\\\"}]}\\\"}}]\"}",
       value |-> JObj([text |-> JStr(StepsNumThenFinalText)])],
      [text |-> "{\"text\":\"[{\\\"step_type\\\":\\\"FINAL\\\",\\\"content\\\":{\\\"answer\\\":5}},{\\\"step_type\\\":\\\"FINAL\\\",\\\"content\\\":{\\\"answer\\\":\\\"{\\\\\\\"answer\\\\\\\":\\\\\\\"Nested answer\\\\\\\",\\\\\\\"web_results\\\\\\\":[{\\\\\\\"name\\\\\\\":\\\\\\\"Source\\\\\\\",\\\\\\\"url\\\\\\\":\\\\\\\"https://example.com\\\\\\\",\\\\\\\"snippet\\\\\\\":\\\\\\\"Example\\\\\\\"}]}\\\"}}]\",\"answer\":\"Top level answer\"}",
       value |-> JObj([text |-> JStr(StepsNumThenFinalText), answer |-> JStr("Top level answer")])],
      [text |-> "{\"text\":\"[{\\\"step_type\\\":\\\"FINAL\\\",\\\"content\\\":{\\\"answer\\\":5}},{\\\"step_type\\\":\\\"FINAL\\\",\\\"content\\\":{\\\"answer\\\":\\\"{\\\\\\\"answer\\\\\\\":\\\\\\\"Nested answer\\\\\\\",\\\\\\\"web_results\\\\\\\":[{\\\\\\\"name\\\\\\\":\\\\\\\"Source\\\\\\\",\\\\\\\"url\\\\\\\":\\\\\\\"https://example.com\\\\\\\",\\\\\\\"snippet\\\\\\\":\\\\\\\"Example\\\\\\\"}]}\\\"}}]\",\"answer\":\"Top level answer\",\"backend_uuid\":\"abc-123\",\"attachments\":[\"url1\",5,\"url2\"],\"status\":\"COMPLETED\"}",
       value |-> JObj([text |-> JStr(StepsNumThenFinalText), answer |-> JStr("Top level answer"), backend_uuid |-> JStr("abc-123"), attachments |-> JArr(<<JStr("url1"), JNum(5), JStr("url2")>>), status |-> JStr("COMPLETED")])],
      [text |-> "{\"text\":\"[{\\\"step_type\\\":\\\"FINAL\\\",\\\"content\\\":{\\\"answer\\\":5}},{\\\"step_type\\\":\\\"FINAL\\\",\\\"content\\\":{\\\"answer\\\":\\\"{\\\\\\\"answer\\\\\\\":\\\\\\\"Nested answer\\\\\\\",\\\\\\\"web_results\\\\\\\":[{\\\\\\\"name\\\\\\\":\\\\\\\"Source\\\\\\\",\\\\\\\"url\\\\\\\":\\\\\\\"https://example.com\\\\\\\",\\\\\\\"snippet\\\\\\\":\\\\\\\"Example\\\\\\\"}]}\\\"}}]\",\"answer\":7}",
       value |-> JObj([text |-> JStr(StepsNumThenFinalText), answer |-> JNum(7)])],
      [text |-> "{\"text\":\"[{\\\"step_type\\\":\\\"FINAL\\\",\\\"content\\\":{\\\"answer\\\":\\\"Paris is the capital\\\"}},{\\\"step_type\\\":\\\"SEARCH\\\",\\\"content\\\":{}},{\\\"step_type\\\":\\\"FINAL\\\",\\\"content\\\":{\\\"answer\\\":\\\"{\\\\\\\"answer\\\\\\\":\\\\\\\"Nested answer\\\\\\\",\\\\\\\"web_results\\\\\\\":[{\\\\\\\"name\\\\\\\":\\\\\\\"Source\\\\\\\",\\\\\\\"url\\\\\\\":\\\\\\\"https://example.com\\\\\\\",\\\\\\\"snippet\\\\\\\":\\\\\\\"Example\\\\\\\"}]}\\\"}}]\"}",
       value |-> JObj([text |-> JStr(StepsPlainThenFinalText)])],
      [text |-> "{\"text\":\"[{\\\"step_type\\\":\\\"FINAL\\\",\\\"content\\\":{\\\"answer\\\":\\\"Paris is the capital\\\"}},{\\\"step_type\\\":\\\"SEARCH\\\",\\\"content\\\":{}},{\\\"step_type\\\":\\\"FINAL\\\",\\\"content\\\":{\\\"answer\\\":\\\"{\\\\\\\"answer\\\\\\\":\\\\\\\"Nested answer\\\\\\\",\\\\\\\"web_results\\\\\\\":[{\\\\\\\"name\\\\\\\":\\\\\\\"Source\\\\\\\",\\\\\\\"url\\\\\\\":\\\\\\\"https://example.com\\\\\\\",\\\\\\\"snippet\\\\\\\":\\\\\\\"Example\\\\\\\"}]}\\\"}}]\",\"answer\":\"Top level answer\"}",
       value |-> JObj([text |-> JStr(StepsPlainThenFinalText), answer |-> JStr("Top level answer")])],
      [text |-> "{\"text\":\"[{\\\"step_type\\\":\\\"FINAL\\\",\\\"content\\\":{\\\"answer\\\":\\\"Paris is the capital\\\"}},{\\\"step_type\\\":\\\"SEARCH\\\",\\\"content\\\":{}},{\\\"step_type\\\":\\\"FINAL\\\",\\\"content\\\":{\\\"answer\\\":\\\"{\\\\\\\"answer\\\\\\\":\\\\\\\"Nested answer\\\\\\\",\\\\\\\"web_results\\\\\\\":[{\\\\\\\"name\\\\\\\":\\\\\\\"Source\\\\\\\",\\\\\\\"url\\\\\\\":\\\\\\\"https://example.com\\\\\\\",\\\\\\\"snippet\\\\\\\":\\\\\\\"Example\\\\\\\"}]}\\\"}}]\",\"answer\":\"Top level answer\",\"backend_uuid\":\"abc-123\",\"attachments\":[\"url1\",5,\"url2\"],\"status\":\"COMPLETED\"}",
       value |-> JObj([text |-> JStr(StepsPlainThenFinalText), answer |-> JStr("Top level answer"), backend_uuid |-> JStr("abc-123"), attachments |-> JArr(<<JStr("url1"), JNum(5), JStr("url2")>>), status |-> JStr("COMPLETED")])],
      [text |-> "{\"text\":\"[{\\\"step_type\\\":\\\"FINAL\\\",\\\"content\\\":{\\\"answer\\\":\\\"Paris is the capital\\\"}},{\\\"step_type\\\":\\\"SEARCH\\\",\\\"content\\\":{}},{\\\"step_type\\\":\\\"FINAL\\\",\\\"content\\\":{\\\"answer\\\":\\\"{\\\\\\\"answer\\\\\\\":\\\\\\\"Nested answer\\\\\\\",\\\\\\\"web_results\\\\\\\":[{\\\\\\\"name\\\\\\\":\\\\\\\"Source\\\\\\\",\\\\\\\"url\\\\\\\":\\\\\\\"https://example.com\\\\\\\",\\\\\\\"snippet\\\\\\\":\\\\\\\"Example\\\\\\\"}]}\\\"}}]\",\"answer\":7}",
       value |-> JObj([text |-> JStr(StepsPlainThenFinalText), answer |-> JNum(7)])],
      [text |-> "{\"text\":\"[{\\\"step_type\\\":\\\"FINAL\\\",\\\"content\\\":{\\\"answer\\\":\\\"{\\\\\\\"answer\\\\\\\":\\\\\\\"A\\\\\\\"}\\\"}},{\\\"step_type\\\":\\\"FINAL\\\",\\\"content\\\":{\\\"answer\\\":\\\"{\\\\\\\"answer\\\\\\\":\\\\\\\"Nested answer\\\\\\\",\\\\\\\"web_results\\\\\\\":[{\\\\\\\"name\\\\\\\":\\\\\\\"Source\\\\\\\",\\\\\\\"url\\\\\\\":\\\\\\\"https://example.com\\\\\\\",\\\\\\\"snippet\\\\\\\":\\\\\\\"Example\\\\\\\"}]}\\\"}}]\"}",
       value |-> JObj([text |-> JStr(StepsBareThenFullText)])],
      [text |-> "{\"text\":\"[{\\\"step_type\\\":\\\"FINAL\\\",\\\"content\\\":{\\\"answer\\\":\\\"{\\\\\\\"answer\\\\\\\":\\\\\\\"A\\\\\\\"}\\\"}},{\\\"step_type\\\":\\\"FINAL\\\",\\\"content\\\":{\\\"answer\\\":\\\"{\\\\\\\"answer\\\\\\\":\\\\\\\"Nested answer\\\\\\\",\\\\\\\"web_results\\\\\\\":[{\\\\\\\"name\\\\\\\":\\\\\\\"Source\\\\\\\",\\\\\\\"url\\\\\\\":\\\\\\\"https://example.com\\\\\\\",\\\\\\\"snippet\\\\\\\":\\\\\\\"Example\\\\\\\"}]}\\\"}}]\",\"answer\":\"Top level answer\"}",
       value |-> JObj([text |-> JStr(StepsBareThenFullText), answer |-> JStr("Top level answer")])],
      [text |-> "{\"text\":\"[{\\\"step_type\\\":\\\"FINAL\\\",\\\"content\\\":{\\\"answer\\\":\\\"{\\\\\\\"answer\\\\\\\":\\\\\\\"A\\\\\\\"}\\\"}},{\\\"step_type\\\":\\\"FINAL\\\",\\\"content\\\":{\\\"answer\\\":\\\"{\\\\\\\"answer\\\\\\\":\\\\\\\"Nested answer\\\\\\\",\\\\\\\"web_results\\\\\\\":[{\\\\\\\"name\\\\\\\":\\\\\\\"Source\\\\\\\",\\\\\\\"url\\\\\\\":\\\\\\\"https://example.com\\\\\\\",\\\\\\\"snippet\\\\\\\":\\\\\\\"Example\\\\\\\"}]}\\\"}}]\",\"answer\":\"Top level answer\",\"backend_uuid\":\"abc-123\",\"attachments\":[\"url1\",5,\"url2\"],\"status\":\"COMPLETED\"}",
       value |-> JObj([text |-> JStr(StepsBareThenFullText), answer |-> JStr("Top level answer"), backend_uuid |-> JStr("abc-123"), attachments |-> JArr(<<JStr("url1"), JNum(5), JStr("url2")>>), status |-> JStr("COMPLETED")])],
      [text |-> "{\"text\":\"[{\\\"step_type\\\":\\\"FINAL\\\",\\\"content\\\":{\\\"answer\\\":\\\"{\\\\\\\"answer\\\\\\\":\\\\\\\"A\\\\\\\"}\\\"}},{\\\"step_type\\\":\\\"FINAL\\\",\\\"content\\\":{\\\"answer\\\":\\\"{\\\\\\\"answer\\\\\\\":\\\\\\\"Nested answer\\\\\\\",\\\\\\\"web_results\\\\\\\":[{\\\\\\\"name\\\\\\\":\\\\\\\"Source\\\\\\\",\\\\\\\"url\\\\\\\":\\\\\\\"https://example.com\\\\\\\",\\\\\\\"snippet\\\\\\\":\\\\\\\"Example\\\\\\\"}]}\\\"}}]\",\"answer\":7}",
       value |-> JObj([text |-> JStr(StepsBareThenFullText), answer |-> JNum(7)])],
      [text |-> "{\"text\":\"{\\\"a\\\":1}\"}",
       value |-> JObj([text |-> JStr(TextObjectText)])],
      [text |-> "{\"text\":\"{\\\"a\\\":1}\",\"answer\":\"Top level answer\"}",
       value |-> JObj([text |-> JStr(TextObjectText), answer |-> JStr("Top level answer")])],
      [text |-> "{\"text\":\"{\\\"a\\\":1}\",\"answer\":\"Top level answer\",\"backend_uuid\":\"abc-123\",\"attachments\":[\"url1\",5,\"url2\"],\"status\":\"COMPLETED\"}",
       value |-> JObj([text |-> JStr(TextObjectText), answer |-> JStr("Top level answer"), backend_uuid |-> JStr("abc-123"), attachments |-> JArr(<<JStr("url1"), JNum(5), JStr("url2")>>), status |-> JStr("COMPLETED")])],
      [text |-> "{\"text\":\"{\\\"a\\\":1}\",\"answer\":7}",
       value |-> JObj([text |-> JStr(TextObjectText), answer |-> JNum(7)])],
      [text |-> "{\"text\":\"plain words\"}",
       value |-> JObj([text |-> JStr(TextPlainText)])],
      [text |-> "{\"text\":\"plain words\",\"answer\":\"Top level answer\"}",
       value |-> JObj([text |-> JStr(TextPlainText), answer |-> JStr("Top level answer")])],
      [text |-> "{\"text\":\"plain words\",\"answer\":\"Top level answer\",\"backend_uuid\":\"abc-123\",\"attachments\":[\"url1\",5,\"url2\"],\"status\":\"COMPLETED\"}",
       value |-> JObj([text |-> JStr(TextPlainText), answer |-> JStr("Top level answer"), backend_uuid |-> JStr("abc-123"), attachments |-> JArr(<<JStr("url1"), JNum(5), JStr("url2")>>), status |-> JStr("COMPLETED")])],
      [text |-> "{\"text\":\"plain words\",\"answer\":7}",
       value |-> JObj([text |-> JStr(TextPlainText), answer |-> JNum(7)])],
      [text |-> "{\"text\":[{\"step_type\":\"SEARCH\",\"content\":{}},{\"step_type\":\"FINAL\",\"content\":{\"answer\":\"{\\\"answer\\\":\\\"Nested answer\\\",\\\"web_results\\\":[{\\\"name\\\":\\\"Source\\\",\\\"url\\\":\\\"https://example.com\\\",\\\"snippet\\\":\\\"Example\\\"}]}\"}}]}",
       value |-> JObj([text |-> JArr(<<JObj([step_type |-> JStr("SEARCH"), content |-> JObj(<<>>)]), JObj([step_type |-> JStr("FINAL"), content |-> JObj([answer |-> JStr(AnswerFullText)])])>>)])],
      [text |-> "{\"text\":[{\"step_type\":\"SEARCH\",\"content\":{}},{\"step_type\":\"FINAL\",\"content\":{\"answer\":\"{\\\"answer\\\":\\\"Nested answer\\\",\\\"web_results\\\":[{\\\"name\\\":\\\"Source\\\",\\\"url\\\":\\\"https://example.com\\\",\\\"snippet\\\":\\\"Example\\\"}]}\"}}],\"answer\":\"Top level answer\"}",
       value |-> JObj([text |-> JArr(<<JObj([step_type |-> JStr("SEARCH"), content |-> JObj(<<>>)]), JObj([step_type |-> JStr("FINAL"), content |-> JObj([answer |-> JStr(AnswerFullText)])])>>), answer |-> JStr("Top level answer")])],
      [text |-> "{\"text\":[{\"step_type\":\"SEARCH\",\"content\":{}},{\"step_type\":\"FINAL\",\"content\":{\"answer\":\"{\\\"answer\\\":\\\"Nested answer\\\",\\\"web_results\\\":[{\\\"name\\\":\\\"Source\\\",\\\"url\\\":\\\"https://example.com\\\",\\\"snippet\\\":\\\"Example\\\"}]}\"}}],\"answer\":\"Top level answer\",\"backend_uuid\":\"abc-123\",\"attachments\":[\"url1\",5,\"url2\"],\"status\":\"COMPLETED\"}",
       value |-> JObj([text |-> JArr(<<JObj([step_type |-> JStr("SEARCH"), content |-> JObj(<<>>)]), JObj([step_type |-> JStr("FINAL"), content |-> JObj([answer |-> JStr(AnswerFullText)])])>>), answer |-> JStr("Top level answer"), backend_uuid |-> JStr("abc-123"), attachments |-> JArr(<<JStr("url1"), JNum(5), JStr("url2")>>), status |-> JStr("COMPLETED")])],
      [text |-> "{\"text\":[{\"step_type\":\"SEARCH\",\"content\":{}},{\"step_type\":\"FINAL\",\"content\":{\"answer\":\"{\\\"answer\\\":\\\"Nested answer\\\",\\\"web_results\\\":[{\\\"name\\\":\\\"Source\\\",\\\"url\\\":\\\"https://example.com\\\",\\\"snippet\\\":\\\"Example\\\"}]}\"}}],\"answer\":7}",
       value |-> JObj([text |-> JArr(<<JObj([step_type |-> JStr("SEARCH"), content |-> JObj(<<>>)]), JObj([step_type |-> JStr("FINAL"), content |-> JObj([answer |-> JStr(AnswerFullText)])])>>), answer |-> JNum(7)])],
      [text |-> "{\"text\":5}",
       value |-> JObj([text |-> JNum(5)])],
      [text |-> "{\"text\":5,\"answer\":\"Top level answer\"}",
       value |-> JObj([text |-> JNum(5), answer |-> JStr("Top level answer")])],
      [text |-> "{\"text\":5,\"answer\":\"Top level answer\",\"backend_uuid\":\"abc-123\",\"attachments\":[\"url1\",5,\"url2\"],\"status\":\"COMPLETED\"}",
       value |-> JObj([text |-> JNum(5), answer |-> JStr("Top level answer"), backend_uuid |-> JStr("abc-123"), attachments |-> JArr(<<JStr("url1"), JNum(5), JStr("url2")>>), status |-> JStr("COMPLETED")])],
      [text |-> "{\"text\":5,\"answer\":7}",
       value |-> JObj([text |-> JNum(5), answer |-> JNum(7)])]
    >>

\* std::str::from_utf8: no byte above 0x7F of the modelled responses is part
\* of a valid sequence (0xFF never is); a valid byte string is the text it
\* spells.
from_utf8(bytes) ==
    IF \E i \in 1..Len(bytes) : bytes[i] >= 128 THEN Err("Utf8Error")
    ELSE CASE bytes = ParisBytes   -> Ok(ParisText)
           [] bytes = CtxBytes     -> Ok(CtxText)
           [] bytes = NestedBytes  -> Ok(NestedText)
           [] bytes = NotJsonBytes -> Ok(NotJsonText)
           [] OTHER                -> Ok("<other text>")

\* serde_json::from_str::<Value> on the texts of a table: the Value of the
\* entry holding the text, a syntax error for a text the table does not hold
TextLookup(table, str) ==
    IF \E i \in DOMAIN table : table[i].text = str
    THEN Ok(table[CHOOSE i \in DOMAIN table : table[i].text = str].value)
    ELSE Err("Json")

\* serde_json::from_str::<Value>: the texts serde_json accepts, with the
\* Value each parses to
from_str(str) ==
    CASE str = ParisText -> Ok(JObj([answer |-> JStr("Paris")]))
      [] str = CtxText ->
            Ok(JObj([backend_uuid |-> JStr("u"), attachments |-> JArr(<<JStr("f")>>)]))
      [] str = NestedText -> Ok(JObj([text |-> JStr(StepsText)]))
      [] str = StepsText ->
            Ok(JArr(<< JObj([step_type |-> JStr("FINAL"),
                             content |-> JObj([answer |-> JStr(AnswerDataText)])]) >>))
      [] str = AnswerDataText ->
            Ok(JObj([answer |-> JStr("N"),
                     web_results |-> JArr(<< JObj([name |-> JStr("n"),
                                                   url |-> JStr("u"),
                                                   snippet |-> JStr("s")]) >>)]))
      [] OTHER -> TextLookup(JsonTexts, str)

-----------------------------------------------------------------------------
(* parse.rs: the event content extractor *)

EXTRACTED_KEYS == {"answer", "backend_uuid", "attachments"}

\* an extractor that leaves a string "text" as it is
parse_nested_text_field_keep_string(content) == content

\* a replacement that puts null for a "text" string that is no JSON
parse_nested_text_field_null_on_bad_text(content) ==
    IF "text" \notin DOMAIN content THEN content
    ELSE IF content["text"].t # "string" THEN content
    ELSE LET parsed == from_str(content["text"].v)
         IN  IF parsed.ok THEN [content EXCEPT !["text"] = parsed.v]
             ELSE [content EXCEPT !["text"] = JNull]

\* parse.rs parse_nested_text_field: content is the object's map
parse_nested_text_field(content) ==
    IF "text" \notin DOMAIN content THEN content
    ELSE IF content["text"].t # "string" THEN content
    ELSE LET parsed == from_str(content["text"].v)
         IN  IF parsed.ok THEN [content EXCEPT !["text"] = parsed.v] ELSE content

\* an extraction that gives the empty string for a key that is absent or
\* holds no string
extract_string_or_empty(content, key) ==
    LET found == AndThenAsStr(Get(JObj(content), key))
    IN  IF IsSome(found) THEN found ELSE Some("")

\* parse.rs extract_string
extract_string(content, key) == AndThenAsStr(Get(JObj(content), key))

\* |v| v.as_str().map(String::from)
StrOption(value) == IF value.t = "string" THEN Some(value.v) ELSE None

\* arr.iter().filter_map(|v| v.as_str().map(String::from)).collect()
RECURSIVE FilterMapStrings(_)
FilterMapStrings(arr) ==
    IF arr = <<>> THEN <<>> ELSE StrOption(Head(arr)) \o FilterMapStrings(Tail(arr))

\* parse.rs extract_string_array
extract_string_array(content, key) ==
    LET arr == AndThenAsArray(Get(JObj(content), key))
    IN  IF IsSome(arr) THEN FilterMapStrings(Unwrap(arr)) ELSE <<>>

\* an extraction that keeps an entry without a snippet, with an empty snippet
extract_web_result_default_snippet(value) ==
    LET name    == AndThenAsStr(Get(value, "name"))
        url     == AndThenAsStr(Get(value, "url"))
        snippet == AndThenAsStr(Get(value, "snippet"))
    IN  IF ~IsSome(name) THEN None
        ELSE IF ~IsSome(url) THEN None
        ELSE Some([name |-> Unwrap(name), url |-> Unwrap(url),
                   snippet |-> IF IsSome(snippet) THEN Unwrap(snippet) ELSE ""])

\* parse.rs extract_web_result: Option<SearchWebResult>
extract_web_result(value) ==
    LET name    == AndThenAsStr(Get(value, "name"))
        url     == AndThenAsStr(Get(value, "url"))
        snippet == AndThenAsStr(Get(value, "snippet"))
    IN  IF ~IsSome(name) THEN None
        ELSE IF ~IsSome(url) THEN None
        ELSE IF ~IsSome(snippet) THEN None
        ELSE Some([name |-> Unwrap(name), url |-> Unwrap(url), snippet |-> Unwrap(snippet)])

\* arr.iter().filter_map(extract_web_result).collect()
RECURSIVE FilterMapWebResults(_)
FilterMapWebResults(arr) ==
    IF arr = <<>> THEN <<>>
    ELSE extract_web_result(Head(arr)) \o FilterMapWebResults(Tail(arr))

IsFinalStep(step) == AndThenAsStr(Get(step, "step_type")) = Some("FINAL")

\* an extraction that answers a FINAL step whose answer string is no JSON
\* with an empty result, instead of giving up
extract_from_final_step_default_on_bad_answer(content) ==
    LET steps == AndThenAsArray(Get(JObj(content), "text"))
    IN  IF ~IsSome(steps) THEN None
        ELSE
        LET finals == {i \in 1..Len(Unwrap(steps)) : IsFinalStep(Unwrap(steps)[i])}
        IN  IF finals = {} THEN None
            ELSE
            LET final_step   == Unwrap(steps)[CHOOSE i \in finals : \A j \in finals : i <= j]
                step_content == Get(final_step, "content")
                answer_v     == IF IsSome(step_content)
                                THEN Get(Unwrap(step_content), "answer") ELSE None
                answer_str   == AndThenAsStr(answer_v)
                answer_data  == IF IsSome(answer_str)
                                THEN from_str(Unwrap(answer_str)) ELSE Err("Json")
            IN  IF ~IsSome(step_content) \/ ~IsSome(answer_str) THEN None
                ELSE IF ~answer_data.ok THEN Some([answer |-> None, web_results |-> <<>>])
                ELSE
                LET web == AndThenAsArray(Get(answer_data.v, "web_results"))
                IN  Some([answer |-> AndThenAsStr(Get(answer_data.v, "answer")),
                          web_results |->
                              IF IsSome(web)
                              THEN FilterMapWebResults(Unwrap(web))
                              ELSE <<>>])

\* an extraction that consults the last FINAL step of the array
extract_from_final_step_last_final(content) ==
    LET steps == AndThenAsArray(Get(JObj(content), "text"))
    IN  IF ~IsSome(steps) THEN None
        ELSE
        LET finals == {i \in 1..Len(Unwrap(steps)) : IsFinalStep(Unwrap(steps)[i])}
        IN  IF finals = {} THEN None
            ELSE
            LET final_step   == Unwrap(steps)[CHOOSE i \in finals : \A j \in finals : i >= j]
                step_content == Get(final_step, "content")
                answer_v     == IF IsSome(step_content)
                                THEN Get(Unwrap(step_content), "answer") ELSE None
                answer_str   == AndThenAsStr(answer_v)
                answer_data  == IF IsSome(answer_str)
                                THEN from_str(Unwrap(answer_str)) ELSE Err("Json")
            IN  IF ~IsSome(step_content) \/ ~IsSome(answer_str) \/ ~answer_data.ok
                THEN None
                ELSE
                LET web == AndThenAsArray(Get(answer_data.v, "web_results"))
                IN  Some([answer |-> AndThenAsStr(Get(answer_data.v, "answer")),
                          web_results |->
                              IF IsSome(web)
                              THEN FilterMapWebResults(Unwrap(web))
                              ELSE <<>>])

\* parse.rs extract_from_final_step: Option<(Option<String>, Vec<SearchWebResult>)>
extract_from_final_step(content) ==
    LET steps == AndThenAsArray(Get(JObj(content), "text"))
    IN  IF ~IsSome(steps) THEN None
        ELSE
        LET finals == {i \in 1..Len(Unwrap(steps)) : IsFinalStep(Unwrap(steps)[i])}
        IN  IF finals = {} THEN None
            ELSE
            LET final_step   == Unwrap(steps)[CHOOSE i \in finals : \A j \in finals : i <= j]
                step_content == Get(final_step, "content")
                answer_v     == IF IsSome(step_content)
                                THEN Get(Unwrap(step_content), "answer") ELSE None
                answer_str   == AndThenAsStr(answer_v)
                answer_data  == IF IsSome(answer_str)
                                THEN from_str(Unwrap(answer_str)) ELSE Err("Json")
            IN  IF ~IsSome(step_content) \/ ~IsSome(answer_str) \/ ~answer_data.ok
                THEN None
                ELSE
                LET web == AndThenAsArray(Get(answer_data.v, "web_results"))
                IN  Some([answer |-> AndThenAsStr(Get(answer_data.v, "answer")),
                          web_results |->
                              IF IsSome(web)
                              THEN FilterMapWebResults(Unwrap(web))
                              ELSE <<>>])

\* an extraction that reads the answer from the FINAL step only, without the
\* top-level "answer" field
extract_answer_from_steps_only(content) ==
    LET nested == extract_from_final_step(content)
    IN  IF IsSome(nested) THEN Unwrap(nested)
        ELSE [answer |-> None, web_results |-> <<>>]

\* an extraction that takes the top-level "answer" when the nested value
\* has none
extract_answer_top_level_for_missing(content) ==
    LET nested == extract_from_final_step(content)
    IN  IF IsSome(nested)
        THEN [answer      |-> IF IsSome(Unwrap(nested).answer)
                              THEN Unwrap(nested).answer
                              ELSE extract_string(content, "answer"),
              web_results |-> Unwrap(nested).web_results]
        ELSE [answer |-> extract_string(content, "answer"), web_results |-> <<>>]

\* parse.rs extract_answer_and_web_results
extract_answer_and_web_results(content) ==
    LET nested == extract_from_final_step(content)
    IN  IF IsSome(nested) THEN Unwrap(nested)
        ELSE [answer |-> extract_string(content, "answer"), web_results |-> <<>>]

\* a residual map that keeps every key
build_raw_map_all_keys(content) == content

\* parse.rs build_raw_map
build_raw_map(content) ==
    [k \in (DOMAIN content) \ EXTRACTED_KEYS |-> content[k]]

\* an extractor that fails when a string "text" is no JSON
parse_sse_event_strict_text(json_str) ==
    LET parsed == from_str(json_str)
    IN  IF ~parsed.ok \/ parsed.v.t # "object" THEN Err("Json")
        ELSE IF /\ "text" \in DOMAIN parsed.v.v
                /\ parsed.v.v["text"].t = "string"
                /\ ~from_str(parsed.v.v["text"].v).ok
        THEN Err("Json")
        ELSE
        LET content == parse_nested_text_field(parsed.v.v)
            aw      == extract_answer_and_web_results(content)
        IN  Ok([answer       |-> aw.answer,
                web_results  |-> aw.web_results,
                backend_uuid |-> extract_string(content, "backend_uuid"),
                attachments  |-> extract_string_array(content, "attachments"),
                raw          |-> build_raw_map(content)])

\* parse.rs parse_sse_event: Result<SearchEvent>
parse_sse_event(json_str) ==
    LET parsed == from_str(json_str)
    IN  IF ~parsed.ok \/ parsed.v.t # "object" THEN Err("Json")
        ELSE
        LET content == parse_nested_text_field(parsed.v.v)
            aw      == extract_answer_and_web_results(content)
        IN  Ok([answer       |-> aw.answer,
                web_results  |-> aw.web_results,
                backend_uuid |-> extract_string(content, "backend_uuid"),
                attachments  |-> extract_string_array(content, "attachments"),
                raw          |-> build_raw_map(content)])


-----------------------------------------------------------------------------
(* sse.rs: the frame decoder *)

\* sse.rs try_parse_event(buffer, finished): the buffer and the flag after
\* the call, and the Option<Result<SearchEvent>> it returns.
try_parse_event(buf, fin) ==
    LET found(pos) ==
            LET event_data == SubSeq(buf, 1, pos)
                remaining  == SliceFrom(buf, pos + Len(DELIMITER))
            IN  IF StartsWith(event_data, EVENT_END_OF_STREAM_PREFIX)
                THEN [buffer |-> remaining, finished |-> TRUE, out |-> None]
                ELSE IF StartsWith(event_data, EVENT_MESSAGE_PREFIX)
                THEN
                    LET after_event == SliceFrom(event_data, Len(EVENT_MESSAGE_PREFIX))
                        data_start  == Find(after_event, DATA_PREFIX)
                    IN  IF IsSome(data_start)
                        THEN
                            LET json_bytes == SliceFrom(after_event,
                                                  Unwrap(data_start) + Len(DATA_PREFIX))
                                json_str   == from_utf8(json_bytes)
                            IN  [buffer |-> remaining, finished |-> fin,
                                 out |-> Some(IF json_str.ok
                                              THEN parse_sse_event(json_str.v)
                                              ELSE Err("InvalidUtf8"))]
                        ELSE [buffer |-> remaining, finished |-> fin, out |-> None]
                ELSE [buffer |-> remaining, finished |-> fin, out |-> None]
        on(find) == IF find = None
                    THEN [buffer |-> buf, finished |-> fin, out |-> None]
                    ELSE found(Unwrap(find))
    IN  CHOOSE r \in {on(find) : find \in {Find(buf, DELIMITER)}} : TRUE

-----------------------------------------------------------------------------
(* The responses of the server: frames on the wire *)

\* "event: message\r\ndata: " followed by a payload
MessageFrame(json_bytes) == EVENT_MESSAGE_PREFIX \o DATA_PREFIX \o json_bytes

\* "event: end_of_stream", the terminal frame with no further line
EndBare ==
    <<101, 118, 101, 110, 116, 58, 32, 101, 110, 100, 95, 111, 102, 95, 115, 116,
      114, 101, 97, 109>>
\* "event: end_of_stream\r\ndata: {}"
EndData == EVENT_END_OF_STREAM_PREFIX \o DATA_PREFIX \o <<123, 125>>
\* ": ping", a frame that is neither a message nor a terminator
Ping == <<58, 32, 112, 105, 110, 103>>
\* "event: message\r\nid: 1", a message frame without a data marker
MsgNoData == EVENT_MESSAGE_PREFIX \o <<105, 100, 58, 32, 49>>

MsgParis   == MessageFrame(ParisBytes)
MsgCtx     == MessageFrame(CtxBytes)
MsgNested  == MessageFrame(NestedBytes)
MsgBadUtf8 == MessageFrame(BadUtf8Bytes)
\* "event: message\r\ndata: x", a message frame whose payload is no JSON
MsgNotJson == MessageFrame(NotJsonBytes)

\* the frames the modelled responses are made of
Frames == {MsgParis, MsgCtx, Ping, EndBare, EndData}

\* the most frames of a response made of any frames
MaxFrames == 2

RECURSIVE FrameSeqs(_)
FrameSeqs(n) ==
    IF n = 0 THEN {<<>>}
    ELSE LET shorter == FrameSeqs(n - 1)
         IN  shorter \cup {Append(fs, f) : fs \in {x \in shorter : Len(x) = n - 1},
                                           f \in Frames}

\* the bytes of a sequence of frames, each closed by the delimiter
RECURSIVE Wire(_)
Wire(fs) == IF fs = <<>> THEN <<>> ELSE Head(fs) \o DELIMITER \o Wire(Tail(fs))

\* responses in which a frame the decoder emits nothing for is followed by
\* two content frames, or by a second such frame and a content frame
DroppedFrames == {MsgNoData, Ping, EndBare}
DroppedStreams ==
    {Wire(<<d, MsgParis, MsgCtx>>) : d \in DroppedFrames}
    \cup {Wire(<<d1, d2, MsgParis>>) : d1 \in DroppedFrames, d2 \in DroppedFrames}

\* "event: message\r\ndata: {", a frame the response ends in the middle of
PartialTail == EVENT_MESSAGE_PREFIX \o DATA_PREFIX \o <<123>>

\* responses that end in the middle of a frame after such frames
TruncatedStreams == {Wire(<<d, d, MsgParis>>) \o PartialTail : d \in DroppedFrames}

\* responses with a payload that is not UTF-8 or no JSON, and with the
\* nested payload
ErrorStreams ==
    {Wire(<<MsgBadUtf8, MsgParis>>), Wire(<<MsgParis, MsgBadUtf8, MsgCtx>>)}
        \cup {Wire(<<d, d, MsgBadUtf8>>) : d \in {Ping, MsgNoData}}
        \cup {Wire(<<MsgParis, MsgNotJson, MsgCtx>>)}
        \cup {Wire(<<Ping, bad, MsgParis>>) : bad \in {MsgBadUtf8, MsgNotJson}}
NestedStreams == {Wire(<<MsgNested, MsgCtx>>)}

Streams ==
    {Wire(fs) : fs \in FrameSeqs(MaxFrames)}
        \cup DroppedStreams \cup TruncatedStreams \cup ErrorStreams \cup NestedStreams

-----------------------------------------------------------------------------
(* The event stream: SseStream::poll_next driven by its consumer *)

\* a search that keeps the latest event that carries an answer, instead of
\* the latest event
DeliverKeepAnswered(item) ==
    /\ emitted' = Append(emitted, item)
    /\ IF consumer = "search"
       THEN IF item.ok
            THEN /\ last_event' = IF IsSome(item.v.answer) \/ ~IsSome(last_event)
                                  THEN Some(item.v) ELSE last_event
                 /\ pc' = "call"
                 /\ outcome' = outcome
            ELSE /\ last_event' = last_event
                 /\ pc' = "done"
                 /\ outcome' = Some(Err(item.e))
       ELSE /\ pc' = "call"
            /\ UNCHANGED <<last_event, outcome>>

\* a search that returns with the first event instead of polling on
DeliverReturnFirst(item) ==
    /\ emitted' = Append(emitted, item)
    /\ IF consumer = "search"
       THEN IF item.ok
            THEN /\ last_event' = Some(item.v)
                 /\ pc' = "drained"
                 /\ outcome' = outcome
            ELSE /\ last_event' = last_event
                 /\ pc' = "done"
                 /\ outcome' = Some(Err(item.e))
       ELSE /\ pc' = "call"
            /\ UNCHANGED <<last_event, outcome>>

\* a search that passes over an error event and asks for the next event
DeliverSkipErrors(item) ==
    /\ emitted' = Append(emitted, item)
    /\ pc' = "call"
    /\ outcome' = outcome
    /\ last_event' = IF consumer = "search" /\ item.ok THEN Some(item.v) ELSE last_event

\* The consumer receives Ready(Some(item)).  Client::search (client.rs
\* 140-145) keeps an Ok event as last_event and asks for the next, and
\* returns an Err at once; a caller of search_stream asks for the next.
Deliver(item) ==
    /\ emitted' = Append(emitted, item)
    /\ IF consumer = "search"
       THEN IF item.ok
            THEN /\ last_event' = Some(item.v)
                 /\ pc' = "call"
                 /\ outcome' = outcome
            ELSE /\ last_event' = last_event
                 /\ pc' = "done"
                 /\ outcome' = Some(Err(item.e))
       ELSE /\ pc' = "call"
            /\ UNCHANGED <<last_event, outcome>>

\* The consumer receives Ready(None): the while-let loop of search ends.
EndOfStream ==
    /\ pc' = IF consumer = "search" THEN "drained" ELSE "done"
    /\ UNCHANGED <<last_event, outcome, emitted>>

\* a loop head that returns the event of a frame and leaves the frame in
\* the buffer
LoopHeadKeepFrame(buf, fin) ==
    \E r \in {try_parse_event(buf, fin)} :
        /\ buffer' = IF IsSome(r.out) THEN buf ELSE r.buffer
        /\ finished' = r.finished
        /\ IF IsSome(r.out) THEN Deliver(Unwrap(r.out))
           ELSE IF r.finished THEN EndOfStream
           ELSE /\ pc' = "inner"
                /\ UNCHANGED <<last_event, outcome, emitted>>

\* sse.rs 47-53, the head of the loop of poll_next on buffer buf with the
\* flag fin: an event is returned, or the end of the stream, or the loop
\* goes on to poll the transport (pc "inner").
LoopHead(buf, fin) ==
    \E r \in {try_parse_event(buf, fin)} :
        /\ buffer' = r.buffer
        /\ finished' = r.finished
        /\ IF IsSome(r.out) THEN Deliver(Unwrap(r.out))
           ELSE IF r.finished THEN EndOfStream
           ELSE /\ pc' = "inner"
                /\ UNCHANGED <<last_event, outcome, emitted>>

\* sse.rs 39-53: poll_next is entered, by stream.next() or after a wake-up
PollEnter ==
    /\ pc = "call"
    /\ IF finished
       THEN /\ EndOfStream
            /\ UNCHANGED <<buffer, finished>>
       ELSE LoopHead(buffer, finished)
    /\ UNCHANGED <<stream, rest, ready, net_err, consumer>>
    /\ UNCHANGED submitVars
    /\ UNCHANGED parseVars
    /\ UNCHANGED parked
    /\ UNCHANGED tool_call
    /\ UNCHANGED buildVars

\* sse.rs 55-71 and the next head of the loop: the transport stream is
\* polled; nothing is ready (Pending), or an error, or a chunk of any size,
\* or the end of the body
PollInner ==
    /\ pc = "inner"
    /\ IF ~ready
       THEN /\ pc' = "pending"
            /\ UNCHANGED <<rest, ready, net_err, buffer, finished, last_event,
                           outcome, emitted>>
       ELSE IF net_err = "raised"
       THEN /\ net_err' = "reported"
            /\ Deliver(Err("Http"))
            /\ UNCHANGED <<rest, ready, buffer, finished>>
       ELSE IF rest # <<>>
       THEN \E k \in 1..Len(rest) :
               /\ rest' = SliceFrom(rest, k)
               /\ ready' = FALSE
               /\ net_err' = net_err
               /\ \E extended \in {buffer \o SubSeq(rest, 1, k)} :
                      LoopHead(extended, finished)
       ELSE /\ IF buffer = <<>>
               THEN /\ EndOfStream
                    /\ finished' = TRUE
                    /\ buffer' = buffer
               ELSE LoopHead(buffer, TRUE)
            /\ UNCHANGED <<rest, ready, net_err>>
    /\ UNCHANGED <<stream, consumer>>
    /\ UNCHANGED submitVars
    /\ UNCHANGED parseVars
    /\ UNCHANGED parked
    /\ UNCHANGED tool_call
    /\ UNCHANGED buildVars

\* the bytes the transport has handed to the decoder so far
Delivered == SubSeq(stream, 1, Len(stream) - Len(rest))

\* a pending poll is woken: its task is scheduled and enters poll_next again
Woken == IF pc = "pending" THEN "call" ELSE pc

\* The transport has the next chunk of the body, or its end when no byte is
\* left.
NetReady ==
    /\ pc \in {"call", "inner", "pending"}
    /\ ~ready
    /\ ready' = TRUE
    /\ pc' = Woken
    /\ UNCHANGED <<stream, rest, net_err, buffer, finished, consumer, last_event,
                   emitted, outcome>>
    /\ UNCHANGED submitVars
    /\ UNCHANGED parseVars
    /\ UNCHANGED parked
    /\ UNCHANGED tool_call
    /\ UNCHANGED buildVars

\* The server ends the body early: the bytes not yet handed over are never
\* sent, the body ends after the bytes handed over so far.
NetCut ==
    /\ pc \in {"call", "inner", "pending"}
    /\ net_err = "none"
    /\ rest # <<>>
    /\ stream' = Delivered
    /\ rest' = <<>>
    /\ ready' = TRUE
    /\ pc' = Woken
    /\ UNCHANGED <<net_err, buffer, finished, consumer, last_event, emitted, outcome>>
    /\ UNCHANGED submitVars
    /\ UNCHANGED parseVars
    /\ UNCHANGED parked
    /\ UNCHANGED tool_call
    /\ UNCHANGED buildVars

\* The transport fails (the connection is lost): the bytes not yet handed
\* over never arrive, the next poll reports the error and then the body ends.
NetFail ==
    /\ pc \in {"call", "inner", "pending"}
    /\ net_err = "none"
    /\ rest # <<>>
    /\ net_err' = "raised"
    /\ stream' = Delivered
    /\ rest' = <<>>
    /\ ready' = TRUE
    /\ pc' = Woken
    /\ UNCHANGED <<buffer, finished, consumer, last_event, emitted, outcome>>
    /\ UNCHANGED submitVars
    /\ UNCHANGED parseVars
    /\ UNCHANGED parked
    /\ UNCHANGED tool_call
    /\ UNCHANGED buildVars

OptionStrValue(o) == IF IsSome(o) THEN JStr(Unwrap(o)) ELSE JNull

\* serde_json::to_value(&event): the derived Serialize of SearchEvent
\* (types.rs 259-276), the residual map flattened beside the four fields
to_value(event) ==
    LET fields == {"answer", "web_results", "backend_uuid", "attachments"}
    IN  JObj([k \in fields \cup DOMAIN event.raw |->
                CASE k = "answer" -> OptionStrValue(event.answer)
                  [] k = "web_results" ->
                        JArr([i \in 1..Len(event.web_results) |->
                                JObj([name    |-> JStr(event.web_results[i].name),
                                      url     |-> JStr(event.web_results[i].url),
                                      snippet |-> JStr(event.web_results[i].snippet)])])
                  [] k = "backend_uuid" -> OptionStrValue(event.backend_uuid)
                  [] k = "attachments" ->
                        JArr([i \in 1..Len(event.attachments) |->
                                JStr(event.attachments[i])])
                  [] OTHER -> event.raw[k]])

\* SearchEvent::as_follow_up (types.rs 280-285)
as_follow_up(event) ==
    [backend_uuid |-> event.backend_uuid, attachments |-> event.attachments]

\* a search that answers a stream without events with an empty response
SearchResultOrEmpty(last) ==
    IF ~IsSome(last)
    THEN Ok([answer      |-> None,
             web_results |-> <<>>,
             follow_up   |-> [backend_uuid |-> None, attachments |-> <<>>],
             raw         |-> JNull])
    ELSE LET event == Unwrap(last)
         IN  Ok([answer      |-> event.answer,
                 web_results |-> event.web_results,
                 follow_up   |-> as_follow_up(event),
                 raw         |-> to_value(event)])

\* client.rs 147-154: the response search builds from the event it kept
SearchResult(last) ==
    IF ~IsSome(last) THEN Err("UnexpectedEndOfStream")
    ELSE LET event == Unwrap(last)
         IN  Ok([answer      |-> event.answer,
                 web_results |-> event.web_results,
                 follow_up   |-> as_follow_up(event),
                 raw         |-> to_value(event)])

\* client.rs 147-154: the loop of search has ended, search returns
SearchReturn ==
    /\ pc = "drained"
    /\ outcome' = Some(SearchResult(last_event))
    /\ pc' = "done"
    /\ UNCHANGED streamVars
    /\ UNCHANGED submitVars
    /\ UNCHANGED parseVars
    /\ UNCHANGED parked
    /\ UNCHANGED tool_call
    /\ UNCHANGED buildVars


-----------------------------------------------------------------------------
(* config.rs and types.rs: modes, models, the model registry *)

SearchModes == {"Auto", "Pro", "Reasoning", "DeepResearch"}

Models == {"Sonar", "Gpt52", "Claude45Sonnet", "Grok41", "Gpt52Thinking",
           "Claude45SonnetThinking", "Gemini30Pro", "KimiK2Thinking", "Grok41Reasoning"}

\* types.rs SearchMode::as_str
SearchMode_as_str(mode) ==
    CASE mode = "Auto" -> "auto"
      [] mode = "Pro" -> "pro"
      [] mode = "Reasoning" -> "reasoning"
      [] mode = "DeepResearch" -> "deep research"

\* types.rs Model::as_str
Model_as_str(model) ==
    CASE model = "Sonar" -> "sonar"
      [] model = "Gpt52" -> "gpt-5.2"
      [] model = "Claude45Sonnet" -> "claude-4.5-sonnet"
      [] model = "Grok41" -> "grok-4.1"
      [] model = "Gpt52Thinking" -> "gpt-5.2-thinking"
      [] model = "Claude45SonnetThinking" -> "claude-4.5-sonnet-thinking"
      [] model = "Gemini30Pro" -> "gemini-3.0-pro"
      [] model = "KimiK2Thinking" -> "kimi-k2-thinking"
      [] model = "Grok41Reasoning" -> "grok-4.1-reasoning"

\* types.rs Source::as_str
Source_as_str(source) ==
    CASE source = "Web" -> "web"
      [] source = "Scholar" -> "scholar"
      [] source = "Social" -> "social"

\* a registry without a default token for deep research
model_preference_no_research_default(mode, model) ==
    CASE mode = "auto" /\ model = None -> Some("turbo")
      [] mode = "pro" /\ model = None -> Some("pplx_pro")
      [] mode = "pro" /\ model = Some("sonar") -> Some("experimental")
      [] mode = "pro" /\ model = Some("gpt-5.2") -> Some("gpt52")
      [] mode = "pro" /\ model = Some("claude-4.5-sonnet") -> Some("claude45sonnet")
      [] mode = "pro" /\ model = Some("grok-4.1") -> Some("grok41nonreasoning")
      [] mode = "reasoning" /\ model = None -> Some("pplx_reasoning")
      [] mode = "reasoning" /\ model = Some("gpt-5.2-thinking") -> Some("gpt52_thinking")
      [] mode = "reasoning" /\ model = Some("claude-4.5-sonnet-thinking")
            -> Some("claude45sonnetthinking")
      [] mode = "reasoning" /\ model = Some("gemini-3.0-pro") -> Some("gemini30pro")
      [] mode = "reasoning" /\ model = Some("kimi-k2-thinking") -> Some("kimik2thinking")
      [] mode = "reasoning" /\ model = Some("grok-4.1-reasoning") -> Some("grok41reasoning")
      [] OTHER -> None

\* a registry that accepts the thinking variant of gpt-5.2 under pro as well
model_preference_thinking_under_pro(mode, model) ==
    CASE mode = "auto" /\ model = None -> Some("turbo")
      [] mode = "pro" /\ model = None -> Some("pplx_pro")
      [] mode = "pro" /\ model = Some("sonar") -> Some("experimental")
      [] mode = "pro" /\ model = Some("gpt-5.2") -> Some("gpt52")
      [] mode = "pro" /\ model = Some("claude-4.5-sonnet") -> Some("claude45sonnet")
      [] mode = "pro" /\ model = Some("grok-4.1") -> Some("grok41nonreasoning")
      [] mode = "pro" /\ model = Some("gpt-5.2-thinking") -> Some("gpt52_thinking")
      [] mode = "reasoning" /\ model = None -> Some("pplx_reasoning")
      [] mode = "reasoning" /\ model = Some("gpt-5.2-thinking") -> Some("gpt52_thinking")
      [] mode = "reasoning" /\ model = Some("claude-4.5-sonnet-thinking")
            -> Some("claude45sonnetthinking")
      [] mode = "reasoning" /\ model = Some("gemini-3.0-pro") -> Some("gemini30pro")
      [] mode = "reasoning" /\ model = Some("kimi-k2-thinking") -> Some("kimik2thinking")
      [] mode = "reasoning" /\ model = Some("grok-4.1-reasoning") -> Some("grok41reasoning")
      [] mode = "deep research" /\ model = None -> Some("pplx_alpha")
      [] OTHER -> None

\* config.rs model_preference(mode, model): Option<&'static str>.  mode is
\* the mode's string, model an Option of the model's string.
model_preference(mode, model) ==
    CASE mode = "auto" /\ model = None -> Some("turbo")
      [] mode = "pro" /\ model = None -> Some("pplx_pro")
      [] mode = "pro" /\ model = Some("sonar") -> Some("experimental")
      [] mode = "pro" /\ model = Some("gpt-5.2") -> Some("gpt52")
      [] mode = "pro" /\ model = Some("claude-4.5-sonnet") -> Some("claude45sonnet")
      [] mode = "pro" /\ model = Some("grok-4.1") -> Some("grok41nonreasoning")
      [] mode = "reasoning" /\ model = None -> Some("pplx_reasoning")
      [] mode = "reasoning" /\ model = Some("gpt-5.2-thinking") -> Some("gpt52_thinking")
      [] mode = "reasoning" /\ model = Some("claude-4.5-sonnet-thinking")
            -> Some("claude45sonnetthinking")
      [] mode = "reasoning" /\ model = Some("gemini-3.0-pro") -> Some("gemini30pro")
      [] mode = "reasoning" /\ model = Some("kimi-k2-thinking") -> Some("kimik2thinking")
      [] mode = "reasoning" /\ model = Some("grok-4.1-reasoning") -> Some("grok41reasoning")
      [] mode = "deep research" /\ model = None -> Some("pplx_alpha")
      [] OTHER -> None

\* Option<Model>::map(|m| m.as_str())
MapModelStr(model) == IF IsSome(model) THEN Some(Model_as_str(Unwrap(model))) ELSE None

-----------------------------------------------------------------------------
(* client.rs and upload.rs: the submission *)

\* types.rs SearchRequest::new
NewRequest ==
    [query     |-> "What is Rust?",
     mode      |-> "Auto",
     model     |-> None,
     sources   |-> <<"Web">>,
     files     |-> <<>>,
     language  |-> "en-US",
     follow_up |-> None,
     incognito |-> FALSE]

\* types.rs 158: #[derive(Default)] on SearchRequest, SearchRequest::default()
DefaultRequest ==
    [query     |-> "",
     mode      |-> "Auto",
     model     |-> None,
     sources   |-> <<>>,
     files     |-> <<>>,
     language  |-> "",
     follow_up |-> None,
     incognito |-> FALSE]

\* the most files a modelled request carries
MaxFiles == 2

\* the files a request may carry: file i of the request is named by i
FileLists == {[i \in 1..n |-> i] : n \in 0..MaxFiles}

\* the FollowUpContext values a modelled request may carry (types.rs 238-243);
\* an attachment URL is written as the uploads write it, its path segments
\* with the file last: the
\* inherited URLs are those of files 3 and 4 of an earlier turn, or URLs
\* that files 1 and 2 of this request get again, one of them twice
FollowUps ==
    { [backend_uuid |-> None,      attachments |-> <<>>],
      [backend_uuid |-> Some("u"),
       attachments  |-> << <<"object_url", 3>>, <<"object_url", 4>> >>],
      [backend_uuid |-> None,
       attachments  |-> << <<"object_url", 1>>, <<"object_url", 2>>, <<"object_url", 1>> >>] }

\* the Vec<Source> values handed to the builder method sources (types.rs 206-209)
SourceLists == {<<>>, <<"Web">>, <<"Scholar", "Social">>}

\* the requests of the model: SearchRequest::new changed by its builder
\* methods mode, model, file and follow_up (types.rs 194-227), and
\* SearchRequest::new and SearchRequest::default, as they are or changed by
\* the builder method sources
Requests ==
    {[NewRequest EXCEPT !.mode = m, !.model = md, !.files = fl, !.follow_up = fu] :
        m \in SearchModes,
        md \in {None} \cup {Some(x) : x \in Models},
        fl \in FileLists,
        fu \in {None} \cup {Some(x) : x \in FollowUps}}
    \cup {DefaultRequest}
    \cup {[base EXCEPT !.sources = sl] :
            base \in {NewRequest, DefaultRequest}, sl \in SourceLists}

\* The cookie maps given to ClientBuilder::cookies: a HashMap is written as
\* the set of its <<name, value>> entries
SessionCookies == {<<"session", "s">>}
CookieMaps == {{}, SessionCookies, {<<"session", "s">>, <<"csrf", "c">>}}

\* The rquest clients given to ClientBuilder::http_client: a transport is
\* written as [custom, jar], jar being the cookies installed in it
CustomClients ==
    {[custom |-> TRUE, jar |-> j] : j \in {{}, {<<"own", "o">>}}}

\* client.rs 28-30: ClientBuilder::new
NewBuilder == [cookies |-> {}, http_client |-> None]

\* client.rs 61-78: let http = match self.http_client: the client given, or
\* a new one whose jar receives every cookie of the builder
build_http(b) ==
    IF IsSome(b.http_client) THEN Unwrap(b.http_client)
    ELSE [custom |-> FALSE, jar |-> b.cookies]

\* a has_cookies taken from the cookies the transport has installed
build_has_cookies_from_jar(b) == build_http(b).jar # {}

\* client.rs 87: has_cookies: !self.cookies.is_empty()
build_has_cookies(b) == b.cookies # {}

\* client.rs 34-37: ClientBuilder::cookies replaces the cookie map
SetCookies ==
    /\ pc = "builder"
    /\ \E c \in CookieMaps : builder' = [builder EXCEPT !.cookies = c]
    /\ UNCHANGED <<http, pc, outcome, tool_call, parked>>
    /\ UNCHANGED submitVars
    /\ UNCHANGED streamVars
    /\ UNCHANGED parseVars

\* client.rs 42-45: ClientBuilder::http_client sets a custom transport
SetHttpClient ==
    /\ pc = "builder"
    /\ \E h \in CustomClients : builder' = [builder EXCEPT !.http_client = Some(h)]
    /\ UNCHANGED <<http, pc, outcome, tool_call, parked>>
    /\ UNCHANGED submitVars
    /\ UNCHANGED streamVars
    /\ UNCHANGED parseVars

\* client.rs 59-88: ClientBuilder::build: the transport is chosen and the
\* session warm-up GET is sent; build returns an error (no Client) when the
\* transport cannot be built or the GET times out or fails, and the Client
\* otherwise, on which search or search_stream is then called
Build ==
    /\ pc = "builder"
    /\ \/ /\ pc' = "done"
          /\ UNCHANGED <<http, has_cookies>>
       \/ /\ http' = Some(build_http(builder))
          /\ has_cookies' = build_has_cookies(builder)
          /\ pc' = "validate"
    /\ UNCHANGED <<builder, request, file_idx, negotiated, s3_resp, attachments,
                   payload, net_log, outcome, tool_call, parked>>
    /\ UNCHANGED streamVars
    /\ UNCHANGED parseVars

\* A Client that build has returned: built without a custom transport, from
\* a builder whose cookies are SessionCookies when the Client has cookies
\* and none otherwise
ClientBuilt ==
    /\ builder = [cookies     |-> IF has_cookies THEN SessionCookies ELSE {},
                  http_client |-> None]
    /\ http = Some(build_http(builder))

\* a validation that lets files through without credentials
validate_request_any_client(cookies, req) == Ok("unit")

\* client.rs validate_request
validate_request(cookies, req) ==
    IF req.files # <<>> /\ ~cookies THEN Err("FileUploadRequiresAuth") ELSE Ok("unit")

\* search_stream returns early with an error (the ? operator)
Fail(e) ==
    /\ outcome' = Some(Err(e))
    /\ pc' = "done"

\* client.rs 165: search_stream is entered, the request is validated
Validate ==
    /\ pc = "validate"
    /\ LET v == validate_request(has_cookies, request)
       IN  IF v.ok THEN /\ pc' = "upload"
                        /\ outcome' = outcome
           ELSE Fail(v.e)
    /\ UNCHANGED <<has_cookies, request, file_idx, negotiated, s3_resp, attachments, payload,
                   net_log>>
    /\ UNCHANGED streamVars
    /\ UNCHANGED parseVars
    /\ UNCHANGED parked
    /\ UNCHANGED tool_call
    /\ UNCHANGED buildVars

\* The ways the upload negotiation POST of upload.rs 21-40 can end in an error
NegotiateErrors == {"Timeout", "Http", "UploadUrlFailed"}

\* A URL is written as the sequence of its path segments; the last segment
\* is the file the URL is of.
\* The s3_object_url of an UploadUrlResponse for file f: of the plain object
\* store, or of the image endpoint (its URL contains "image/upload")
ObjectUrls(f) == {<<"object_url", f>>, <<"image", "upload", f>>}

\* upload.rs 62: s3_object_url.contains("image/upload"): the segment "image"
\* directly followed by the segment "upload"
IsImageUpload(url) ==
    \E i \in 1..(Len(url) - 2) : url[i] = "image" /\ url[i + 1] = "upload"

\* a negotiation that is sent again after an error
UploadNegotiateRetry ==
    /\ pc = "upload"
    /\ file_idx <= Len(request.files)
    /\ net_log' = Append(net_log, <<"create_upload_url", request.files[file_idx]>>)
    /\ \/ /\ negotiated' = negotiated
          /\ pc' = pc
          /\ outcome' = outcome
       \/ \E url \in ObjectUrls(request.files[file_idx]) :
             /\ negotiated' = Some(url)
             /\ pc' = "transfer"
             /\ outcome' = outcome
    /\ s3_resp' = None
    /\ UNCHANGED <<has_cookies, request, file_idx, attachments, payload>>
    /\ UNCHANGED streamVars
    /\ UNCHANGED parseVars
    /\ UNCHANGED parked
    /\ UNCHANGED tool_call
    /\ UNCHANGED buildVars

\* upload.rs 13-40: upload_file is called for the next file of request.files
\* and POSTs the upload negotiation
UploadNegotiate ==
    /\ pc = "upload"
    /\ file_idx <= Len(request.files)
    /\ net_log' = Append(net_log, <<"create_upload_url", request.files[file_idx]>>)
    /\ \/ \E e \in NegotiateErrors :
             /\ Fail(e)
             /\ negotiated' = negotiated
       \/ \E url \in ObjectUrls(request.files[file_idx]) :
             /\ negotiated' = Some(url)
             /\ pc' = "transfer"
             /\ outcome' = outcome
    /\ s3_resp' = None
    /\ UNCHANGED <<has_cookies, request, file_idx, attachments, payload>>
    /\ UNCHANGED streamVars
    /\ UNCHANGED parseVars
    /\ UNCHANGED parked
    /\ UNCHANGED tool_call
    /\ UNCHANGED buildVars

\* The ways the storage transfer POST of upload.rs 53-60 can end in an error
TransferErrors == {"Timeout", "Http", "S3UploadFailed"}

\* the path segments the part s--.*?-- of S3_URL_REGEX matches, and those
\* its part v\d+ matches, among the segments of the modelled URLs
SignatureSegments == {"s--abc--"}
VersionSegments == {"v17"}

\* upload.rs 9-11: S3_URL_REGEX, /private/s--.*?--/v\d+/user_uploads/,
\* matches url from its segment i on
S3_URL_REGEX_is_match_at(url, i) ==
    /\ i + 4 <= Len(url)
    /\ url[i] = "private"
    /\ url[i + 1] \in SignatureSegments
    /\ url[i + 2] \in VersionSegments
    /\ url[i + 3] = "user_uploads"

\* a rewrite of every match (Regex::replace_all)
S3_URL_REGEX_replace_all(url) ==
    LET hits == {i \in 1..Len(url) : S3_URL_REGEX_is_match_at(url, i)}
        drop == {h + 1 : h \in hits} \cup {h + 2 : h \in hits}
        kept[i \in 0..Len(url)] ==
            IF i = 0 THEN <<>>
            ELSE IF i \in drop THEN kept[i - 1] ELSE Append(kept[i - 1], url[i])
    IN  kept[Len(url)]

\* upload.rs 66: S3_URL_REGEX.replace(&secure_url, "/private/user_uploads/"):
\* Regex::replace rewrites the leftmost match and no other; without a match
\* the text is returned as it is
S3_URL_REGEX_replace(url) ==
    LET hits == {i \in 1..Len(url) : S3_URL_REGEX_is_match_at(url, i)}
    IN  IF hits = {} THEN url
        ELSE LET i == CHOOSE k \in hits : \A h \in hits : k <= h
             IN  SubSeq(url, 1, i - 1) \o <<"private", "user_uploads">>
                    \o SubSeq(url, i + 4, Len(url))

\* The secure_url values of the S3UploadResponse the image endpoint may send
\* for file f: with the signed segment, without it, with a version segment
\* that is no number, and with the signed segment twice
SecureUrls(f) ==
    { <<"private", "s--abc--", "v17", "user_uploads", f>>,
      <<"private", "user_uploads", f>>,
      <<"private", "s--abc--", "vX", "user_uploads", f>>,
      <<"private", "s--abc--", "v17", "user_uploads",
        "private", "s--abc--", "v17", "user_uploads", f>> }

\* types.rs 346-349: the S3UploadResponse values upload_resp.json() can give:
\* secure_url is absent or null, or is one of SecureUrls
S3UploadResponses(f) ==
    {[secure_url |-> None]} \cup {[secure_url |-> Some(u)] : u \in SecureUrls(f)}

\* a transfer that skips a file whose upload failed and goes on to the next
UploadTransferBestEffort ==
    /\ pc = "transfer"
    /\ net_log' = Append(net_log, <<"s3_upload", request.files[file_idx]>>)
    /\ LET url == Unwrap(negotiated)
           pushed(u) == /\ attachments' = Append(attachments, u)
                        /\ file_idx' = file_idx + 1
                        /\ pc' = "upload"
                        /\ outcome' = outcome
           skipped   == /\ attachments' = attachments
                        /\ file_idx' = file_idx + 1
                        /\ pc' = "upload"
                        /\ outcome' = outcome
       IN  \/ skipped /\ s3_resp' = s3_resp
           \/ /\ IsImageUpload(url)
              /\ \E resp \in S3UploadResponses(request.files[file_idx]) :
                    /\ s3_resp' = Some(resp)
                    /\ IF IsSome(resp.secure_url)
                       THEN pushed(S3_URL_REGEX_replace(Unwrap(resp.secure_url)))
                       ELSE skipped
           \/ /\ ~IsImageUpload(url)
              /\ s3_resp' = s3_resp
              /\ pushed(url)
    /\ negotiated' = None
    /\ UNCHANGED <<has_cookies, request, payload>>
    /\ UNCHANGED streamVars
    /\ UNCHANGED parseVars
    /\ UNCHANGED parked
    /\ UNCHANGED tool_call
    /\ UNCHANGED buildVars

\* upload.rs 42-71: the multipart transfer and the URL upload_file returns
UploadTransfer ==
    /\ pc = "transfer"
    /\ net_log' = Append(net_log, <<"s3_upload", request.files[file_idx]>>)
    /\ LET url == Unwrap(negotiated)
           pushed(u) == /\ attachments' = Append(attachments, u)
                        /\ file_idx' = file_idx + 1
                        /\ pc' = "upload"
                        /\ outcome' = outcome
           failed(e) == /\ Fail(e)
                        /\ UNCHANGED <<attachments, file_idx>>
       IN  \/ \E e \in TransferErrors :
                 /\ failed(e)
                 /\ s3_resp' = s3_resp
           \/ /\ IsImageUpload(url)
              /\ \/ /\ failed("Http")           \* the response body is no JSON
                    /\ s3_resp' = s3_resp
                 \/ \E resp \in S3UploadResponses(request.files[file_idx]) :
                       /\ s3_resp' = Some(resp)
                       /\ IF IsSome(resp.secure_url)
                          THEN pushed(S3_URL_REGEX_replace(Unwrap(resp.secure_url)))
                          ELSE failed("MissingSecureUrl")
           \/ /\ ~IsImageUpload(url)
              /\ s3_resp' = s3_resp
              /\ pushed(url)
    /\ negotiated' = None
    /\ UNCHANGED <<has_cookies, request, payload>>
    /\ UNCHANGED streamVars
    /\ UNCHANGED parseVars
    /\ UNCHANGED parked
    /\ UNCHANGED tool_call
    /\ UNCHANGED buildVars

\* an extension that leaves out the inherited URLs already in the list
extend_attachments_dedup(uploaded, follow_up) ==
    IF IsSome(follow_up)
    THEN uploaded \o SelectSeq(Unwrap(follow_up).attachments,
                               LAMBDA u : \A i \in 1..Len(uploaded) : uploaded[i] # u)
    ELSE uploaded

\* client.rs 174-176: attachments.extend(follow_up.attachments.clone()) when
\* the request has a FollowUpContext
extend_attachments(uploaded, follow_up) ==
    IF IsSome(follow_up)
    THEN uploaded \o Unwrap(follow_up).attachments
    ELSE uploaded

\* a mode string that has a bucket of its own for deep research
mode_str_three_buckets(mode) ==
    CASE mode = "Auto"         -> "concise"
      [] mode = "DeepResearch" -> "research"
      [] OTHER                 -> "copilot"

\* client.rs 178-181: let mode_str = match request.mode
mode_str(mode) == IF mode = "Auto" THEN "concise" ELSE "copilot"

\* client.rs 193-208: the AskPayload of the request (the two fresh uuids left out)
AskPayload(req, uploaded, model_pref) ==
    [query_str |-> req.query,
     params |->
        [attachments       |-> extend_attachments(uploaded, req.follow_up),
         is_incognito      |-> req.incognito,
         language          |-> req.language,
         last_backend_uuid |-> IF IsSome(req.follow_up)
                               THEN Unwrap(req.follow_up).backend_uuid ELSE None,
         mode              |-> mode_str(req.mode),
         model_preference  |-> model_pref,
         source            |-> "default",
         sources           |-> [i \in 1..Len(req.sources) |-> Source_as_str(req.sources[i])],
         version           |-> "2.18"]]

\* a serialisation that sends an absent last_backend_uuid as null
SerializeAskParams_null_uuid(params) ==
    [k \in DOMAIN params |->
        IF k = "last_backend_uuid"
        THEN (IF IsSome(params[k]) THEN Unwrap(params[k]) ELSE "null")
        ELSE params[k]]

\* types.rs 314-328: #[derive(Serialize)] of AskParams: the members of the
\* JSON object; last_backend_uuid is skipped when it is None
\* (skip_serializing_if = "Option::is_none") and is its string otherwise
SerializeAskParams(params) ==
    IF IsSome(params.last_backend_uuid)
    THEN [k \in DOMAIN params |->
            IF k = "last_backend_uuid" THEN Unwrap(params[k]) ELSE params[k]]
    ELSE [k \in DOMAIN params \ {"last_backend_uuid"} |-> params[k]]

\* types.rs 308-312 and client.rs 213: .json(&payload), the JSON body of the
\* main query POST
SerializeAskPayload(p) ==
    [query_str |-> p.query_str, params |-> SerializeAskParams(p.params)]

\* The ways the main query POST of client.rs 210-224 can end in an error
AskErrors == {"Timeout", "Http", "Server"}

\* the bytes of the response "event: message / data: {"answer":"Paris"}"
\* followed by "event: end_of_stream"
ParisStream == Wire(<<MsgParis, EndBare>>)

\* SseStream::new(response.bytes_stream()) (sse.rs 28-30) on a response
\* whose body is the bytes s, handed to the consumer
OpenStream(s) ==
    /\ stream = s
    /\ rest = s
    /\ ready = FALSE
    /\ net_err = "none"
    /\ buffer = <<>>
    /\ finished = FALSE
    /\ last_event = None
    /\ emitted = <<>>

\* what the call has returned when the stream is handed over: search_stream
\* has returned the stream to its caller, search has not returned yet
Opened(cons) == IF cons = "stream" THEN Some(Ok("SseStream")) ELSE None

\* client.rs 172-226: every file is uploaded; the payload is assembled, the
\* model resolved, and the main query POSTed
Post ==
    /\ pc = "upload"
    /\ file_idx > Len(request.files)
    /\ LET model_pref == model_preference(SearchMode_as_str(request.mode),
                                          MapModelStr(request.model))
       IN  IF ~IsSome(model_pref)
           THEN /\ Fail("InvalidModelForMode")
                /\ UNCHANGED <<payload, net_log>>
           ELSE /\ payload' = Some(SerializeAskPayload(
                                    AskPayload(request, attachments, Unwrap(model_pref))))
                /\ net_log' = Append(net_log, <<"perplexity_ask">>)
                /\ \/ \E e \in AskErrors : Fail(e)
                   \/ /\ pc' = "call"
                      /\ outcome' = Opened(consumer)
    /\ UNCHANGED <<has_cookies, request, file_idx, negotiated, s3_resp, attachments>>
    /\ UNCHANGED streamVars
    /\ UNCHANGED parseVars
    /\ UNCHANGED parked
    /\ UNCHANGED tool_call
    /\ UNCHANGED buildVars

-----------------------------------------------------------------------------
(* Specifications *)

\* A Client (built with or without cookies) on which search or
\* search_stream is called with a request; the response body, if the call
\* gets that far, is ParisStream.
InitSubmit ==
    /\ has_cookies \in BOOLEAN
    /\ request \in Requests
    /\ consumer \in {"search", "stream"}
    /\ pc = "validate"
    /\ file_idx = 1
    /\ negotiated = None
    /\ s3_resp = None
    /\ ClientBuilt
    /\ attachments = <<>>
    /\ payload = None
    /\ net_log = <<>>
    /\ outcome = None
    /\ OpenStream(ParisStream)
    /\ parse_arg = ""
    /\ parse_ret = None
    /\ parked = None
    /\ tool_call = None

NextSubmit == Validate \/ UploadNegotiate \/ UploadTransfer \/ Post

SpecSubmit == InitSubmit /\ [][NextSubmit]_vars

\* A ClientBuilder fresh from Client::builder(); once a Client is built,
\* search or search_stream is called on it with a request.
InitBuild ==
    /\ builder = NewBuilder
    /\ http = None
    /\ has_cookies = FALSE
    /\ request \in Requests
    /\ consumer \in {"search", "stream"}
    /\ pc = "builder"
    /\ file_idx = 1
    /\ negotiated = None
    /\ s3_resp = None
    /\ attachments = <<>>
    /\ payload = None
    /\ net_log = <<>>
    /\ outcome = None
    /\ OpenStream(ParisStream)
    /\ parse_arg = ""
    /\ parse_ret = None
    /\ parked = None
    /\ tool_call = None

NextBuild == SetCookies \/ SetHttpClient \/ Build \/ Validate

SpecBuild == InitBuild /\ [][NextBuild]_vars

\* The state in which search_stream has POSTed SearchRequest::new and
\* wrapped the response body, any of Streams, in a fresh SseStream.
InitStream ==
    /\ has_cookies = FALSE
    /\ request = NewRequest
    /\ consumer \in {"search", "stream"}
    /\ pc = "call"
    /\ file_idx = 1
    /\ negotiated = None
    /\ s3_resp = None
    /\ ClientBuilt
    /\ attachments = <<>>
    /\ payload = Some(SerializeAskPayload(AskPayload(NewRequest, <<>>, "turbo")))
    /\ net_log = << <<"perplexity_ask">> >>
    /\ outcome = Opened(consumer)
    /\ \E s \in Streams : OpenStream(s)
    /\ parse_arg = ""
    /\ parse_ret = None
    /\ parked = None
    /\ tool_call = None

NextStream == PollEnter \/ PollInner \/ NetReady \/ NetCut \/ NetFail \/ SearchReturn

SpecStream == InitStream /\ [][NextStream]_vars

\* server.rs 28-35
parse_source(s) ==
    CASE s = "web"     -> Some("Web")
      [] s = "scholar" -> Some("Scholar")
      [] s = "social"  -> Some("Social")
      [] OTHER         -> None

\* server.rs 106: sources.iter().filter_map(|s| parse_source(s.as_str())).collect()
RECURSIVE FilterMapSources(_)
FilterMapSources(arr) ==
    IF arr = <<>> THEN <<>>
    ELSE parse_source(Head(arr)) \o FilterMapSources(Tail(arr))

\* server.rs 141-180: the three tools and the mode each hands to do_search
Tools == {"perplexity_search", "perplexity_research", "perplexity_reason"}

\* a reasoning tool that asks for the Pro mode
ToolModeReasonAsPro(tool) ==
    CASE tool = "perplexity_search"   -> "Auto"
      [] tool = "perplexity_research" -> "DeepResearch"
      [] tool = "perplexity_reason"   -> "Pro"

ToolMode(tool) ==
    CASE tool = "perplexity_search"   -> "Auto"
      [] tool = "perplexity_research" -> "DeepResearch"
      [] tool = "perplexity_reason"   -> "Reasoning"

\* the values of the parameter `sources` of a tool call: absent, empty,
\* recognised strings, unrecognised ones, and both mixed
ToolSources ==
    {None, Some(<<>>), Some(<<"web">>), Some(<<"scholar", "social">>),
     Some(<<"news">>), Some(<<"Web", "images">>), Some(<<"news", "social", "WEB">>),
     Some(<<"web", "web">>)}

\* the PerplexityRequest values of the modelled tool calls (server.rs 12-25)
ToolParams ==
    {[query |-> "What is Rust?", sources |-> src, language |-> lang] :
        src \in ToolSources, lang \in {None, Some("de-DE")}}

\* a request builder that takes the parsed sources as they are
do_search_request_parsed_as_is(params, mode) ==
    LET base   == [NewRequest EXCEPT !.query = params.query, !.mode = mode,
                                     !.incognito = TRUE]
        parsed == IF IsSome(params.sources)
                  THEN FilterMapSources(Unwrap(params.sources)) ELSE <<>>
        sourced == IF IsSome(params.sources) /\ Unwrap(params.sources) # <<>>
                   THEN [base EXCEPT !.sources = parsed] ELSE base
    IN  IF IsSome(params.language)
        THEN [sourced EXCEPT !.language = Unwrap(params.language)]
        ELSE sourced

\* server.rs 100-114: the SearchRequest do_search builds from the params
do_search_request(params, mode) ==
    LET base   == [NewRequest EXCEPT !.query = params.query, !.mode = mode,
                                     !.incognito = TRUE]
        parsed == IF IsSome(params.sources)
                  THEN FilterMapSources(Unwrap(params.sources)) ELSE <<>>
        sourced == IF /\ IsSome(params.sources)
                      /\ Unwrap(params.sources) # <<>>
                      /\ parsed # <<>>
                   THEN [base EXCEPT !.sources = parsed] ELSE base
    IN  IF IsSome(params.language)
        THEN [sourced EXCEPT !.language = Unwrap(params.language)]
        ELSE sourced

\* server.rs 95-116: a tool is called; do_search builds the request and
\* calls client.search(request), which enters search_stream
DoSearch ==
    /\ pc = "tool"
    /\ request' = do_search_request(Unwrap(tool_call).params,
                                    ToolMode(Unwrap(tool_call).tool))
    /\ pc' = "validate"
    /\ UNCHANGED <<has_cookies, file_idx, negotiated, s3_resp, attachments, payload, net_log,
                   outcome, tool_call>>
    /\ UNCHANGED buildVars
    /\ UNCHANGED streamVars
    /\ UNCHANGED parseVars
    /\ UNCHANGED parked

\* A PerplexityServer on a Client built with or without cookies; one of its
\* tools is called with any of ToolParams.  No request exists before
\* do_search builds it: `request` holds SearchRequest::new until then.
InitTool ==
    /\ has_cookies \in BOOLEAN
    /\ tool_call \in {Some([tool |-> t, params |-> p]) : t \in Tools, p \in ToolParams}
    /\ request = NewRequest
    /\ consumer = "search"
    /\ pc = "tool"
    /\ file_idx = 1
    /\ negotiated = None
    /\ s3_resp = None
    /\ ClientBuilt
    /\ attachments = <<>>
    /\ payload = None
    /\ net_log = <<>>
    /\ outcome = None
    /\ OpenStream(ParisStream)
    /\ parse_arg = ""
    /\ parse_ret = None
    /\ parked = None

NextTool == DoSearch \/ Validate \/ Post

SpecTool == InitTool /\ [][NextTool]_vars

\* the response bodies of two calls in flight on one Client
FirstStream  == Wire(<<MsgParis>>)
SecondStream == Wire(<<MsgNotJson>>)

\* the call that is running: its SseStream (buffer, finished), its transport
\* stream and the position and history of its consumer
Running ==
    [stream |-> stream, rest |-> rest, ready |-> ready, net_err |-> net_err,
     buffer |-> buffer, finished |-> finished, pc |-> pc, emitted |-> emitted]

\* the call c is the one that runs from now on
Resume(c) ==
    /\ stream' = c.stream
    /\ rest' = c.rest
    /\ ready' = c.ready
    /\ net_err' = c.net_err
    /\ buffer' = c.buffer
    /\ finished' = c.finished
    /\ pc' = c.pc
    /\ emitted' = c.emitted

\* a Client that keeps one buffer for all its streams: the second stream
\* starts on the bytes the first has buffered
OpenSecondSharedBuffer ==
    /\ parked = None
    /\ parked' = Some(Running)
    /\ Resume([stream |-> SecondStream, rest |-> SecondStream, ready |-> FALSE,
               net_err |-> "none", buffer |-> buffer, finished |-> finished,
               pc |-> "call", emitted |-> <<>>])
    /\ UNCHANGED <<consumer, last_event, outcome>>
    /\ UNCHANGED submitVars
    /\ UNCHANGED parseVars
    /\ UNCHANGED tool_call
    /\ UNCHANGED buildVars

\* client.rs 161-226 and sse.rs 28-30: search_stream(&self, ..) is called a
\* second time on the Client, at any point of the first call's stream (in
\* flight, ended, or abandoned by its consumer); the response body is
\* wrapped in a new SseStream { inner, buffer: BytesMut::new(), finished: false }
OpenSecond ==
    /\ parked = None
    /\ parked' = Some(Running)
    /\ Resume([stream |-> SecondStream, rest |-> SecondStream, ready |-> FALSE,
               net_err |-> "none", buffer |-> <<>>, finished |-> FALSE,
               pc |-> "call", emitted |-> <<>>])
    /\ UNCHANGED <<consumer, last_event, outcome>>
    /\ UNCHANGED submitVars
    /\ UNCHANGED parseVars
    /\ UNCHANGED tool_call
    /\ UNCHANGED buildVars

\* the executor runs the other call: each call owns its SseStream, a step
\* of one is a poll_next on that stream (sse.rs 39: self: Pin<&mut Self>)
Switch ==
    /\ IsSome(parked)
    /\ parked' = Some(Running)
    /\ Resume(Unwrap(parked))
    /\ UNCHANGED <<consumer, last_event, outcome>>
    /\ UNCHANGED submitVars
    /\ UNCHANGED parseVars
    /\ UNCHANGED tool_call
    /\ UNCHANGED buildVars

\* search_stream has returned the SseStream of FirstStream to its caller;
\* the Client is free for a second call.
InitPair ==
    /\ has_cookies = FALSE
    /\ request = NewRequest
    /\ consumer = "stream"
    /\ pc = "call"
    /\ file_idx = 1
    /\ negotiated = None
    /\ s3_resp = None
    /\ ClientBuilt
    /\ attachments = <<>>
    /\ payload = Some(SerializeAskPayload(AskPayload(NewRequest, <<>>, "turbo")))
    /\ net_log = << <<"perplexity_ask">> >>
    /\ outcome = Opened(consumer)
    /\ OpenStream(FirstStream)
    /\ parse_arg = ""
    /\ parse_ret = None
    /\ parked = None
    /\ tool_call = None

NextPair ==
    PollEnter \/ PollInner \/ NetReady \/ NetCut \/ NetFail \/ OpenSecond \/ Switch

SpecPair == InitPair /\ [][NextPair]_vars

\* the texts parse_sse_event is called with: every text of JsonTexts, the
\* payloads of the modelled responses, and texts that are no JSON
ParseInputs ==
    {JsonTexts[i].text : i \in DOMAIN JsonTexts}
        \cup {ParisText, CtxText, NestedText, NotJsonText, AnswerPlainText,
              TextPlainText, ""}

\* sse.rs 97: parse_sse_event(json_str) is called and returns
ParseEvent ==
    /\ pc = "parse"
    /\ parse_ret' = Some(parse_sse_event(parse_arg))
    /\ pc' = "done"
    /\ UNCHANGED <<parse_arg, outcome>>
    /\ UNCHANGED submitVars
    /\ UNCHANGED streamVars
    /\ UNCHANGED parked
    /\ UNCHANGED tool_call
    /\ UNCHANGED buildVars

\* A call of parse_sse_event with any of ParseInputs.
InitParse ==
    /\ has_cookies = FALSE
    /\ request = NewRequest
    /\ consumer = "stream"
    /\ pc = "parse"
    /\ file_idx = 1
    /\ negotiated = None
    /\ s3_resp = None
    /\ ClientBuilt
    /\ attachments = <<>>
    /\ payload = None
    /\ net_log = <<>>
    /\ outcome = None
    /\ OpenStream(<<>>)
    /\ parse_arg \in ParseInputs
    /\ parse_ret = None
    /\ parked = None
    /\ tool_call = None

NextParse == ParseEvent

SpecParse == InitParse /\ [][NextParse]_vars

-----------------------------------------------------------------------------
(* The frame decoder: what the response says, frame by frame *)

\* the events of the frames of bytes when every frame arrives as a chunk of
\* its own: try_parse_event applied to frame after frame, up to a terminator
RECURSIVE FrameByFrame(_)
FrameByFrame(bytes) ==
    IF Find(bytes, DELIMITER) = None THEN <<>>
    ELSE LET r == try_parse_event(bytes, FALSE)
         IN  IF r.finished THEN <<>>
             ELSE r.out \o FrameByFrame(r.buffer)

\* a frame whose first line is "event: end_of_stream"
IsTerminalFrame(frame) ==
    \/ frame = EndBare
    \/ StartsWith(frame, EVENT_END_OF_STREAM_PREFIX)

\* Option: the number of bytes of `bytes` up to the end of the delimiter of
\* its first terminal frame, offset added
RECURSIVE TerminatorEnd(_, _)
TerminatorEnd(bytes, offset) ==
    LET pos == Find(bytes, DELIMITER)
    IN  IF pos = None THEN None
        ELSE LET end == Unwrap(pos) + Len(DELIMITER)
             IN  IF IsTerminalFrame(SubSeq(bytes, 1, Unwrap(pos)))
                 THEN Some(offset + end)
                 ELSE TerminatorEnd(SliceFrom(bytes, end), offset + end)

\* the transport has handed a whole terminal frame to the decoder
TerminatorDelivered ==
    LET term == TerminatorEnd(Delivered, 0)
    IN  IsSome(term)

\* the decoder has taken a whole terminal frame out of its buffer
TerminatorConsumed ==
    LET term == TerminatorEnd(Delivered, 0)
    IN  IsSome(term) /\ Len(Delivered) - Len(buffer) >= Unwrap(term)

\* the event stream has reported its end to a consumer that polls to the
\* end, and the transport reported no error
StreamEnded == consumer = "stream" /\ pc = "done" /\ net_err = "none"

\* C1: chunk-boundary independence.  However the transport splits the bytes
\* of the response into chunks, once the stream has ended the events emitted
\* are those of the delivery with one frame per chunk.
C1_ChunkBoundaryIndependence ==
    StreamEnded => emitted = FrameByFrame(stream)

\* C2: once the decoder has taken a terminal frame (a frame whose first line
\* is "event: end_of_stream") out of its buffer, no step emits an item for
\* a frame that follows it.
C2_NothingAfterTerminator ==
    [][(TerminatorConsumed /\ net_err' = net_err) => emitted' = emitted]_vars

\* C3: the terminal frame alone ends the stream.  Once a terminal frame has
\* been handed to the decoder, poll_next does not return Pending: the
\* decoder never waits for the transport to close or to deliver a chunk,
\* which the server need not do.
C3_TerminatorEndsStream ==
    TerminatorDelivered => pc # "pending"

\* the response ends in the middle of a frame: bytes follow its last delimiter
RECURSIVE EndsMidFrame(_)
EndsMidFrame(bytes) ==
    LET pos == Find(bytes, DELIMITER)
    IN  IF pos = None THEN bytes # <<>>
        ELSE EndsMidFrame(SliceFrom(bytes, Unwrap(pos) + Len(DELIMITER)))

\* C4: when the input ends in the middle of a frame, the stream ends with
\* no event and no error for the partial tail: the events emitted are
\* exactly those of the complete frames before it.
C4_PartialTailDropped ==
    (StreamEnded /\ EndsMidFrame(stream)) => emitted = FrameByFrame(stream)

\* search has returned
SearchDone == consumer = "search" /\ pc = "done"

\* C5: search over an event stream that ends with no event and no error
\* fails with UnexpectedEndOfStream, it returns no SearchResponse.
C5_EmptyStreamFails ==
    (SearchDone /\ emitted = <<>>) => outcome = Some(Err("UnexpectedEndOfStream"))

C5_Witness ==
    /\ SearchDone
    /\ emitted = <<>>
    /\ stream # <<>>
    /\ outcome = Some(Err("UnexpectedEndOfStream"))

\* every item of the event stream was an event, none an error
ErrorFree == \A i \in 1..Len(emitted) : emitted[i].ok

\* C6: after an error-free event stream with at least one event, search
\* returns a response whose answer, web_results and follow_up are those of
\* the last event of the stream.
C6_LastEventWins ==
    (SearchDone /\ emitted # <<>> /\ ErrorFree) =>
        LET last == emitted[Len(emitted)].v
            res  == Unwrap(outcome)
        IN  /\ res.ok
            /\ res.v.answer = last.answer
            /\ res.v.web_results = last.web_results
            /\ res.v.follow_up = [backend_uuid |-> last.backend_uuid,
                                  attachments  |-> last.attachments]

\* a last event with a null answer after an event with an answer
C6_Witness ==
    /\ SearchDone
    /\ Len(emitted) = 2
    /\ ErrorFree
    /\ emitted[1].v.answer = Some("Paris")
    /\ emitted[2].v.answer = None
    /\ Unwrap(outcome).ok
    /\ Unwrap(outcome).v.answer = None
    /\ Unwrap(outcome).v.follow_up.backend_uuid = Some("u")

\* the event of the payload {"answer":"Paris"}
ParisEvent ==
    [answer       |-> Some("Paris"),
     web_results  |-> <<>>,
     backend_uuid |-> None,
     attachments  |-> <<>>,
     raw          |-> <<>>]

\* C7: the response ParisStream, under any chunking and followed by the end
\* of input, decodes to exactly one event with answer "Paris"; the stream
\* then ends with no error and search returns a response with answer "Paris".
C7_ParisScenario ==
    (stream = ParisStream /\ net_err = "none") =>
        /\ emitted \in {<<>>, <<Ok(ParisEvent)>>}
        /\ pc \in {"drained", "done"} => emitted = <<Ok(ParisEvent)>>
        /\ SearchDone =>
              /\ Unwrap(outcome).ok
              /\ Unwrap(outcome).v.answer = Some("Paris")

C7_Witness ==
    /\ stream = ParisStream
    /\ SearchDone
    /\ emitted = <<Ok(ParisEvent)>>
    /\ Unwrap(outcome).ok
    /\ Unwrap(outcome).v.answer = Some("Paris")

-----------------------------------------------------------------------------
(* The submission *)

\* the model selector of the request is illegal for its mode
IllegalModel ==
    model_preference(SearchMode_as_str(request.mode), MapModelStr(request.model)) = None

\* C8: a submission whose model selector is illegal for its mode issues no
\* network call, and when it has returned it has failed with
\* InvalidModelForMode or, before that, with FileUploadRequiresAuth.
C8_ValidationBeforeNetwork ==
    IllegalModel =>
        /\ net_log = <<>>
        /\ pc = "done" => Unwrap(outcome) \in {Err("InvalidModelForMode"),
                                               Err("FileUploadRequiresAuth")}

\* C9: a request with a file on a client without credentials fails with
\* FileUploadRequiresAuth, and the submission issues no network call.
C9_FilesRequireAuth ==
    (request.files # <<>> /\ ~has_cookies) =>
        /\ net_log = <<>>
        /\ pc \in {"validate", "done"}
        /\ pc = "done" => outcome = Some(Err("FileUploadRequiresAuth"))

C9_Witness ==
    /\ request.files # <<>>
    /\ ~has_cookies
    /\ pc = "done"
    /\ net_log = <<>>
    /\ outcome = Some(Err("FileUploadRequiresAuth"))

\* the network calls of a submission that uploads all of files and POSTs
\* the main query, in order
RECURSIVE UploadCalls(_)
UploadCalls(files) ==
    IF files = <<>> THEN <<>>
    ELSE << <<"create_upload_url", Head(files)>>, <<"s3_upload", Head(files)>> >>
            \o UploadCalls(Tail(files))

AllCalls(files) == UploadCalls(files) \o << <<"perplexity_ask">> >>

IsPrefix(s, t) == Len(s) <= Len(t) /\ SubSeq(t, 1, Len(s)) = s

\* the submission has returned an error from the upload of file file_idx
UploadFailed ==
    /\ pc = "done"
    /\ outcome # None
    /\ ~Unwrap(outcome).ok
    /\ Unwrap(outcome).e # "FileUploadRequiresAuth"
    /\ file_idx <= Len(request.files)

\* C10: the uploads run one at a time in the order of request.files and all
\* complete before the main query POST; when the upload of file k fails, the
\* submission returns that error, the last call issued is a leg of file k,
\* and the main query POST is not issued.
C10_UploadsSequential ==
    /\ IsPrefix(net_log, AllCalls(request.files))
    /\ Len(net_log) > 2 * Len(request.files) => Len(attachments) = Len(request.files)
    /\ UploadFailed =>
          /\ net_log # <<>>
          /\ net_log[Len(net_log)][2] = request.files[file_idx]
          /\ Len(net_log) <= 2 * file_idx
          /\ Unwrap(outcome).e \in NegotiateErrors \cup TransferErrors
                                      \cup {"MissingSecureUrl"}

\* the upload of the second of two files fails after the first succeeded
C10_Witness ==
    /\ UploadFailed
    /\ file_idx = 2
    /\ Len(attachments) = 1
    /\ Len(net_log) = 4
    /\ Unwrap(outcome).e = "MissingSecureUrl"

\* C11: the main query POST never carries an empty sources list, whatever
\* builder calls made the request.
C11_SourcesNonEmpty ==
    IsSome(payload) => Unwrap(payload).params.sources # <<>>

\* the attachment URLs of the FollowUpContext of the request, none without one
Inherited ==
    IF IsSome(request.follow_up) THEN Unwrap(request.follow_up).attachments ELSE <<>>

\* u is a URL upload_file can return for file f
IsUrlOf(u, f) == u # <<>> /\ u[Len(u)] = f

\* C21: the attachments of the outbound payload are one URL per file of
\* request.files, in the order of the files, followed by the attachment
\* URLs of the FollowUpContext in their order, duplicates kept; without a
\* FollowUpContext the list is the new upload URLs alone.
C21_AttachmentsMerged ==
    IsSome(payload) =>
        LET sent == Unwrap(payload).params.attachments
            n    == Len(request.files)
        IN  /\ Len(sent) = n + Len(Inherited)
            /\ \A i \in 1..n : IsUrlOf(sent[i], request.files[i])
            /\ SubSeq(sent, n + 1, Len(sent)) = Inherited
            /\ ~IsSome(request.follow_up) => Len(sent) = n

\* two files were uploaded under a FollowUpContext that already holds the
\* URL of the first of them, twice: the payload lists that URL three times
C21_Witness ==
    /\ IsSome(payload)
    /\ Len(request.files) = 2
    /\ IsSome(request.follow_up)
    /\ Len(Inherited) = 3
    /\ Unwrap(payload).params.attachments[1] = Inherited[1]
    /\ Unwrap(payload).params.attachments[1] = Inherited[3]
    /\ Len(Unwrap(payload).params.attachments) = 5

\* the request has a FollowUpContext whose backend_uuid is present
HasBackendUuid ==
    /\ IsSome(request.follow_up)
    /\ IsSome(Unwrap(request.follow_up).backend_uuid)

\* C22: the params object of the outbound payload has the member
\* last_backend_uuid exactly when the request has a FollowUpContext with a
\* backend_uuid, and the member then has that value; otherwise the object
\* has no such member, not even a null one.
C22_BackendUuidCarried ==
    IsSome(payload) =>
        LET params == Unwrap(payload).params
        IN  /\ ("last_backend_uuid" \in DOMAIN params) <=> HasBackendUuid
            /\ HasBackendUuid =>
                    params.last_backend_uuid = Unwrap(Unwrap(request.follow_up).backend_uuid)

\* a payload was sent for a request whose FollowUpContext has no
\* backend_uuid: the member is absent
C22_Witness ==
    /\ IsSome(payload)
    /\ IsSome(request.follow_up)
    /\ ~IsSome(Unwrap(request.follow_up).backend_uuid)
    /\ "last_backend_uuid" \notin DOMAIN Unwrap(payload).params

\* a payload was sent that carries the backend_uuid of the FollowUpContext
BackendUuidSent ==
    /\ IsSome(payload)
    /\ HasBackendUuid
    /\ Unwrap(payload).params.last_backend_uuid = "u"

\* C23: the mode of the outbound payload is "concise" exactly when the
\* request mode is Auto, and "copilot" for Pro, Reasoning and DeepResearch.
C23_WireMode ==
    IsSome(payload) =>
        LET mode == Unwrap(payload).params.mode
        IN  /\ mode \in {"concise", "copilot"}
            /\ (mode = "concise") <=> (request.mode = "Auto")
            /\ request.mode \in {"Pro", "Reasoning", "DeepResearch"} => mode = "copilot"

\* a deep research request was sent in the copilot bucket
C23_Witness ==
    /\ IsSome(payload)
    /\ request.mode = "DeepResearch"
    /\ Unwrap(payload).params.mode = "copilot"

-----------------------------------------------------------------------------
(* The model registry *)

\* what model_preference returns for the mode and the model of the request
Resolved ==
    model_preference(SearchMode_as_str(request.mode), MapModelStr(request.model))

\* the tokens of the registry
Tokens ==
    {"turbo", "pplx_pro", "experimental", "gpt52", "claude45sonnet",
     "grok41nonreasoning", "pplx_reasoning", "gpt52_thinking",
     "claude45sonnetthinking", "gemini30pro", "kimik2thinking", "grok41reasoning",
     "pplx_alpha"}

\* the default token of a mode
DefaultToken(mode) ==
    CASE mode = "Auto" -> "turbo"
      [] mode = "Pro" -> "pplx_pro"
      [] mode = "Reasoning" -> "pplx_reasoning"
      [] mode = "DeepResearch" -> "pplx_alpha"

\* C12: for every mode and every selector or None, model_preference returns
\* a token or the rejected outcome, and for a request without a selector it
\* returns the default token of the mode: such a request is never rejected
\* and is POSTed with that token.
C12_RegistryTotal ==
    /\ Resolved = None \/ (Len(Resolved) = 1 /\ Unwrap(Resolved) \in Tokens)
    /\ request.model = None =>
          /\ Resolved = Some(DefaultToken(request.mode))
          /\ outcome # Some(Err("InvalidModelForMode"))
    /\ IsSome(payload) => Resolved = Some(Unwrap(payload).params.model_preference)

\* a deep research request without a selector is POSTed with pplx_alpha
C12_Witness ==
    /\ request.mode = "DeepResearch"
    /\ request.model = None
    /\ IsSome(payload)
    /\ Unwrap(payload).params.model_preference = "pplx_alpha"

\* the one mode a selector is legal under
LegalMode(model) ==
    IF model \in {"Sonar", "Gpt52", "Claude45Sonnet", "Grok41"} THEN "Pro" ELSE "Reasoning"

\* search_stream has got past the uploads: it has resolved the model
ModelResolved ==
    \/ IsSome(payload)
    \/ outcome = Some(Err("InvalidModelForMode"))

\* C13: a selector is accepted by model_preference under exactly one mode,
\* a Pro selector under pro and a Reasoning selector under reasoning, and
\* rejected under every other: a request with a selector is POSTed only
\* under that mode and fails with InvalidModelForMode under another.
C13_SelectorLegalUnderOneMode ==
    IsSome(request.model) =>
        /\ IsSome(Resolved) <=> request.mode = LegalMode(Unwrap(request.model))
        /\ IsSome(payload) => request.mode = LegalMode(Unwrap(request.model))
        /\ (ModelResolved /\ request.mode # LegalMode(Unwrap(request.model))) =>
              outcome = Some(Err("InvalidModelForMode"))

\* a thinking selector is rejected under pro, and accepted under reasoning
C13_Witness ==
    /\ request.model = Some("Gpt52Thinking")
    /\ \/ request.mode = "Pro" /\ outcome = Some(Err("InvalidModelForMode"))
       \/ /\ request.mode = "Reasoning"
          /\ IsSome(payload)
          /\ Unwrap(payload).params.model_preference = "gpt52_thinking"

-----------------------------------------------------------------------------
(* The event content extractor: what the payload says *)

\* parse_sse_event has returned
ParseReturned == pc = "done" /\ IsSome(parse_ret)

\* the payload as JSON
ParsedArg == from_str(parse_arg)

\* the payload is a JSON object
ArgIsObject == ParsedArg.ok /\ ParsedArg.v.t = "object"

\* the members of the payload object
TopLevel == ParsedArg.v.v

\* the event parse_sse_event returned
RetEvent == Unwrap(parse_ret).v

\* Option: the string an object has at key
StringAt(members, key) ==
    IF key \in DOMAIN members /\ members[key].t = "string"
    THEN Some(members[key].v) ELSE None

\* C14: for a payload object without "text", the event has the top-level
\* string "answer" as its answer and no web results; without "answer",
\* "backend_uuid" and "attachments" it has answer None, backend_uuid None and
\* no attachments.
C14_TopLevelAnswer ==
    (ParseReturned /\ ArgIsObject /\ "text" \notin DOMAIN TopLevel) =>
        /\ Unwrap(parse_ret).ok
        /\ IsSome(StringAt(TopLevel, "answer")) =>
              /\ RetEvent.answer = StringAt(TopLevel, "answer")
              /\ RetEvent.web_results = <<>>
        /\ (DOMAIN TopLevel \cap {"answer", "backend_uuid", "attachments"} = {}) =>
              /\ RetEvent.answer = None
              /\ RetEvent.backend_uuid = None
              /\ RetEvent.attachments = <<>>

\* the payloads {"answer":"Top level answer"} and {} have been parsed
C14_Witness ==
    /\ ParseReturned
    /\ \/ /\ parse_arg = "{\"answer\":\"Top level answer\"}"
          /\ RetEvent.answer = Some("Top level answer")
          /\ RetEvent.web_results = <<>>
       \/ /\ parse_arg = "{}"
          /\ RetEvent.answer = None
          /\ RetEvent.backend_uuid = None
          /\ RetEvent.attachments = <<>>

\* C15: the keys of raw are the top-level keys of the payload without
\* answer, backend_uuid and attachments, and every key of raw other than
\* "text" has the value it has in the payload.
C15_RawResidual ==
    (ParseReturned /\ ArgIsObject) =>
        /\ Unwrap(parse_ret).ok
        /\ DOMAIN RetEvent.raw = DOMAIN TopLevel \ {"answer", "backend_uuid", "attachments"}
        /\ \A k \in DOMAIN RetEvent.raw \ {"text"} : RetEvent.raw[k] = TopLevel[k]

\* a payload with all three extracted keys, "text" and "status"
C15_Witness ==
    /\ ParseReturned
    /\ ArgIsObject
    /\ DOMAIN TopLevel = {"text", "answer", "backend_uuid", "attachments", "status"}
    /\ DOMAIN RetEvent.raw = {"text", "status"}
    /\ RetEvent.raw["status"] = JStr("COMPLETED")

\* Option: the steps of a "text" that is a string holding a JSON array
TextArrayString ==
    IF "text" \in DOMAIN TopLevel /\ TopLevel["text"].t = "string"
    THEN LET r == from_str(TopLevel["text"].v)
         IN  IF r.ok /\ r.v.t = "array" THEN Some(r.v.v) ELSE None
    ELSE None

\* a step object with step_type "FINAL"
StepIsFinal(step) ==
    /\ step.t = "object"
    /\ "step_type" \in DOMAIN step.v
    /\ step.v["step_type"].t = "string"
    /\ step.v["step_type"].v = "FINAL"

\* Option: the string at content.answer of a step
StepAnswerString(step) ==
    IF /\ "content" \in DOMAIN step.v
       /\ step.v["content"].t = "object"
    THEN StringAt(step.v["content"].v, "answer")
    ELSE None

\* Option: the members of the JSON object the content.answer of a step holds
StepAnswerObject(step) ==
    IF IsSome(StepAnswerString(step))
    THEN LET r == from_str(Unwrap(StepAnswerString(step)))
         IN  IF r.ok /\ r.v.t = "object" THEN Some(r.v.v) ELSE None
    ELSE None

\* the web_results array of an answer object, empty when it has none
ResultsOf(members) ==
    IF "web_results" \in DOMAIN members /\ members["web_results"].t = "array"
    THEN members["web_results"].v ELSE <<>>

\* an entry with string name, url and snippet
EntryComplete(entry) ==
    /\ entry.t = "object"
    /\ IsSome(StringAt(entry.v, "name"))
    /\ IsSome(StringAt(entry.v, "url"))
    /\ IsSome(StringAt(entry.v, "snippet"))

\* the complete entries of a web_results array, in its order
RECURSIVE CompleteEntries(_)
CompleteEntries(entries) ==
    IF entries = <<>> THEN <<>>
    ELSE (IF EntryComplete(Head(entries))
          THEN << [name    |-> Head(entries).v["name"].v,
                   url     |-> Head(entries).v["url"].v,
                   snippet |-> Head(entries).v["snippet"].v] >>
          ELSE <<>>) \o CompleteEntries(Tail(entries))

\* the event has the answer and the complete web results of the answer
\* object of step, and raw keeps "text" and every other non-extracted key
EventOfStep(step) ==
    /\ Unwrap(parse_ret).ok
    /\ RetEvent.answer = StringAt(Unwrap(StepAnswerObject(step)), "answer")
    /\ RetEvent.web_results = CompleteEntries(ResultsOf(Unwrap(StepAnswerObject(step))))
    /\ DOMAIN TopLevel \ {"answer", "backend_uuid", "attachments"} \subseteq DOMAIN RetEvent.raw

\* the index of the first FINAL step of steps, 0 when there is none
FirstFinal(steps) ==
    LET finals == {i \in DOMAIN steps : StepIsFinal(steps[i])}
    IN  IF finals = {} THEN 0 ELSE CHOOSE i \in finals : \A j \in finals : i <= j

\* C16 as stated: when "text" is a JSON-array string with a FINAL step
\* whose content.answer is a JSON-object string {answer: A, web_results: R},
\* the event has answer A and the complete entries of R, whichever FINAL
\* step of the array that is.
C16_NestedPathAnyFinal ==
    (ParseReturned /\ ArgIsObject /\ IsSome(TextArrayString)) =>
        \A i \in DOMAIN Unwrap(TextArrayString) :
            LET step == Unwrap(TextArrayString)[i]
            IN  (StepIsFinal(step) /\ IsSome(StepAnswerObject(step))) => EventOfStep(step)

\* C16: when "text" is a JSON-array string whose first FINAL step has a
\* content.answer that is a JSON-object string {answer: A, web_results: R},
\* the event has answer A and the entries of R with string name, url and
\* snippet, in R's order; raw keeps "text" and every other non-extracted key.
C16_NestedPathFirstFinal ==
    (ParseReturned /\ ArgIsObject /\ IsSome(TextArrayString)) =>
        LET steps == Unwrap(TextArrayString)
        IN  (FirstFinal(steps) # 0 /\ IsSome(StepAnswerObject(steps[FirstFinal(steps)])))
                => EventOfStep(steps[FirstFinal(steps)])

\* the nested answer wins over a top-level answer, with its one web result
C16_Witness ==
    /\ ParseReturned
    /\ ArgIsObject
    /\ "text" \in DOMAIN TopLevel
    /\ TopLevel["text"].t = "string"
    /\ TopLevel["text"].v = StepsFullText
    /\ StringAt(TopLevel, "answer") = Some("Top level answer")
    /\ RetEvent.answer = Some("Nested answer")
    /\ RetEvent.web_results =
          << [name |-> "Source", url |-> "https://example.com", snippet |-> "Example"] >>
    /\ "text" \in DOMAIN RetEvent.raw

\* Option: the steps the extractor finds in "text": the array a string
\* "text" holds, or an array "text"
TextSteps ==
    IF "text" \notin DOMAIN TopLevel THEN None
    ELSE IF TopLevel["text"].t = "array" THEN Some(TopLevel["text"].v)
    ELSE TextArrayString

\* the nested path is broken: "text" is no array, or has no FINAL step, or
\* its FINAL step has no content, no content.answer, one that is no string,
\* or one that is no JSON
NestedPathBroken ==
    \/ ~IsSome(TextSteps)
    \/ LET steps == Unwrap(TextSteps)
       IN  \/ FirstFinal(steps) = 0
           \/ ~IsSome(StepAnswerString(steps[FirstFinal(steps)]))
           \/ ~from_str(Unwrap(StepAnswerString(steps[FirstFinal(steps)]))).ok

\* C17: when "text" is present and the nested path is broken, the event has
\* the top-level string "answer" as its answer (None without one) and no
\* web results.
C17_Fallback ==
    (ParseReturned /\ ArgIsObject /\ "text" \in DOMAIN TopLevel /\ NestedPathBroken) =>
        /\ Unwrap(parse_ret).ok
        /\ RetEvent.answer = StringAt(TopLevel, "answer")
        /\ RetEvent.web_results = <<>>

\* a FINAL step whose answer is no JSON, and a top-level answer
C17_Witness ==
    /\ ParseReturned
    /\ ArgIsObject
    /\ "text" \in DOMAIN TopLevel
    /\ TopLevel["text"].t = "string"
    /\ TopLevel["text"].v = StepsPlainText
    /\ NestedPathBroken
    /\ RetEvent.answer = Some("Top level answer")
    /\ RetEvent.web_results = <<>>

\* the web_results array the extractor reads: that of the answer object of
\* the first FINAL step, empty when the nested path gives none
ResultsRead ==
    IF NestedPathBroken THEN <<>>
    ELSE LET step == Unwrap(TextSteps)[FirstFinal(Unwrap(TextSteps))]
         IN  IF IsSome(StepAnswerObject(step))
             THEN ResultsOf(Unwrap(StepAnswerObject(step))) ELSE <<>>

\* C18: an entry of web_results without a string name, url or snippet is
\* left out and raises no error; the complete entries are kept in their
\* order, every field of a result is the string of its entry.
C18_CitationDropping ==
    (ParseReturned /\ ArgIsObject /\ "text" \in DOMAIN TopLevel) =>
        /\ Unwrap(parse_ret).ok
        /\ RetEvent.web_results = CompleteEntries(ResultsRead)

\* of five entries, the two complete ones are kept
C18_Witness ==
    /\ ParseReturned
    /\ ArgIsObject
    /\ "text" \in DOMAIN TopLevel
    /\ Len(ResultsRead) = 5
    /\ RetEvent.web_results =
          << [name |-> "N1", url |-> "U1", snippet |-> "S1"],
             [name |-> "N4", url |-> "U4", snippet |-> "S4"] >>

\* C19: parse_sse_event returns an error only for a payload that is no JSON
\* object; a "text" string or a FINAL answer string that is no JSON gives
\* no error.
C19_ErrorOnlyForBadPayload ==
    ParseReturned =>
        /\ ArgIsObject => Unwrap(parse_ret).ok
        /\ ~ArgIsObject => Unwrap(parse_ret) = Err("Json")

\* a payload whose "text" string is no JSON has been parsed into an event
C19_Witness ==
    /\ ParseReturned
    /\ ArgIsObject
    /\ "text" \in DOMAIN TopLevel
    /\ TopLevel["text"].t = "string"
    /\ TopLevel["text"].v = TextPlainText
    /\ Unwrap(parse_ret).ok
    /\ RetEvent.answer = StringAt(TopLevel, "answer")

\* the positions of the InvalidUtf8 errors in a sequence of items
InvalidUtf8At(items) ==
    {i \in DOMAIN items : ~items[i].ok /\ items[i].e = "InvalidUtf8"}

\* C20: a message frame whose bytes after "data: " are not UTF-8 gives one
\* InvalidUtf8 error at the position of the frame among the events: once
\* the stream has ended, the InvalidUtf8 errors emitted are at the
\* positions they have in the frame-by-frame reading of the response.
C20_InvalidUtf8Reported ==
    StreamEnded => InvalidUtf8At(emitted) = InvalidUtf8At(FrameByFrame(stream))

-----------------------------------------------------------------------------
(* Two calls on one Client *)

\* the calls there are: the running one, and the parked one if there is one
Calls == {Running} \cup (IF IsSome(parked) THEN {Unwrap(parked)} ELSE {})

\* the bytes the transport of call c has handed to its decoder
DeliveredOf(c) == SubSeq(c.stream, 1, Len(c.stream) - Len(c.rest))

\* s is a suffix of t
IsSuffix(s, t) == Len(s) <= Len(t) /\ SubSeq(t, Len(t) - Len(s) + 1, Len(t)) = s

\* the items of a history without the transport errors
RECURSIVE Decoded(_)
Decoded(items) ==
    IF items = <<>> THEN <<>>
    ELSE (IF ~Head(items).ok /\ Head(items).e = "Http" THEN <<>> ELSE <<Head(items)>>)
            \o Decoded(Tail(items))

\* call c shows nothing but its own response: its buffer is a tail of the
\* bytes its own transport handed over, it is finished only when its own
\* input ended, and the events it emitted are, in order, events of the
\* frames of its own bytes
Isolated(c) ==
    /\ IsSuffix(c.buffer, DeliveredOf(c))
    /\ c.finished => (c.rest = <<>> \/ IsSome(TerminatorEnd(DeliveredOf(c), 0)))
    /\ IsPrefix(Decoded(c.emitted), FrameByFrame(DeliveredOf(c)))

\* C24: calls on one Client share no decoder state.  Under every
\* interleaving of two streams, and when the second call is made after the
\* first stream was left with bytes in its buffer, each stream starts with
\* an empty buffer, not finished, and holds and emits only what comes from
\* its own response bytes, in order.
C24_StreamsIsolated ==
    /\ \A c \in Calls : Isolated(c)
    /\ \A c \in Calls : (c.rest = c.stream /\ c.stream # <<>>) =>
            (c.buffer = <<>> /\ ~c.finished /\ c.emitted = <<>>)

\* the second call was made while the first stream held a part of a frame
\* in its buffer; both streams were then polled to their ends, and each
\* emitted the one event of its own response
C24_Witness ==
    /\ IsSome(parked)
    /\ {c.stream : c \in Calls} = {FirstStream, SecondStream}
    /\ \A c \in Calls :
          /\ c.pc = "done"
          /\ c.emitted = FrameByFrame(c.stream)
          /\ Len(c.emitted) = 1

\* the second call has just been made, the first stream holds bytes of an
\* incomplete frame in its buffer
SecondOpenedMidFrame ==
    /\ IsSome(parked)
    /\ Unwrap(parked).buffer # <<>>
    /\ ~Unwrap(parked).finished
    /\ rest = stream
    /\ buffer = <<>>

-----------------------------------------------------------------------------
(* The MCP tools *)

\* the strings of the parameter `sources` of the tool call, none when absent
GivenSources ==
    IF IsSome(Unwrap(tool_call).params.sources)
    THEN Unwrap(Unwrap(tool_call).params.sources) ELSE <<>>

\* the strings of the parameter that name a source
Recognised == SelectSeq(GivenSources, LAMBDA g : g \in {"web", "scholar", "social"})

\* C25: a tool call submits ["web"] when its parameter `sources` is absent
\* or empty or holds no recognised string, and otherwise the recognised
\* strings of the parameter, in their order, the others dropped; it never
\* submits an empty source list.
C25_ToolSourcesDefault ==
    (IsSome(tool_call) /\ IsSome(payload)) =>
        LET sent == Unwrap(payload).params.sources
        IN  /\ sent # <<>>
            /\ Recognised = <<>> => sent = <<"web">>
            /\ Recognised # <<>> => sent = Recognised

\* a call with sources ["news"], none of them recognised, was submitted
\* with ["web"]
C25_Witness ==
    /\ IsSome(tool_call)
    /\ IsSome(payload)
    /\ GivenSources = <<"news">>
    /\ Unwrap(payload).params.sources = <<"web">>

\* a call with sources ["news", "social", "WEB"] was submitted with ["social"]
UnrecognisedDropped ==
    /\ IsSome(tool_call)
    /\ IsSome(payload)
    /\ GivenSources = <<"news", "social", "WEB">>
    /\ Unwrap(payload).params.sources = <<"social">>

-----------------------------------------------------------------------------
(* The frame decoder: its buffer, its end, the order of its events *)

\* bytes holds a complete frame that try_parse_event discards: a frame that
\* is no terminator and gives no event
RECURSIVE HasDiscarded(_)
HasDiscarded(bytes) ==
    IF Find(bytes, DELIMITER) = None THEN FALSE
    ELSE LET r == try_parse_event(bytes, FALSE)
         IN  \/ (~r.finished /\ ~IsSome(r.out))
             \/ HasDiscarded(r.buffer)

\* poll_next has returned Pending, or the end of the stream, to a consumer
\* that polls to the end
Suspended == consumer = "stream" /\ pc \in {"pending", "done"}

\* C26: a frame with unrecognised framing is discarded and the decoder goes
\* on with the bytes it has buffered.  When poll_next returns Pending or
\* the end of the stream and no terminal frame was delivered, no complete
\* content frame that followed a discarded frame is left unemitted in the
\* buffer.
C26_ScanContinuesAfterDiscard ==
    (Suspended /\ ~TerminatorDelivered /\ HasDiscarded(Delivered))
        => FrameByFrame(buffer) = <<>>

\* the decoder is about to poll the transport (sse.rs 55), or has returned
\* Pending, or has reported the end of the stream
AsksOrRests ==
    \/ pc \in {"inner", "pending"}
    \/ (consumer = "stream" /\ pc = "done")

\* C27: whenever the decoder asks the transport for more input, is
\* suspended as Pending or has reported the end of the stream, the bytes it
\* retains in its buffer hold no complete CR LF CR LF delimiter.
C27_NoDelimiterRetained ==
    AsksOrRests => Find(buffer, DELIMITER) = None

\* the stream has reported its end after a terminal frame and retains a
\* delimited frame that followed the terminal frame in the same chunk
DelimiterRetainedAtEnd ==
    /\ consumer = "stream"
    /\ pc = "done"
    /\ TerminatorConsumed
    /\ Find(buffer, DELIMITER) # None

\* C28: Finished is terminal.  A call of poll_next that leaves the decoder
\* finished, whether a terminal frame or the end of the transport stream
\* finished it, in this call or an earlier one, returns no item: an item is
\* the last thing a call does, so one returned by such a call was emitted
\* after the decoder had become finished.
C28_FinishedIsTerminal ==
    [][finished' => emitted' = emitted]_vars

\* s is t with some of its elements left out, the others in their order
RECURSIVE IsSubseq(_, _)
IsSubseq(s, t) ==
    IF s = <<>> THEN TRUE
    ELSE IF t = <<>> THEN FALSE
    ELSE IF Head(s) = Head(t) THEN IsSubseq(Tail(s), Tail(t))
    ELSE IsSubseq(s, Tail(t))

\* C29: events are emitted in arrival order, each frame at most once.
\* Under every chunking, at every point of the stream, the events emitted
\* so far are events of the content frames delivered so far, in the order
\* of the frames, no frame giving two of them.
C29_ArrivalOrder ==
    IsSubseq(Decoded(emitted), FrameByFrame(Delivered))

\* the frames of Paris and of the context arrived in one chunk and both
\* were emitted, Paris first
C29_Witness ==
    /\ stream = Wire(<<MsgParis, MsgCtx>>)
    /\ Len(emitted) = 2
    /\ emitted[1].ok /\ emitted[1].v.answer = Some("Paris")
    /\ emitted[2].ok /\ emitted[2].v.backend_uuid = Some("u")
    /\ buffer = <<>>

-----------------------------------------------------------------------------
(* search: the event stream drained *)

\* search has returned a SearchResponse
SearchOk == consumer = "search" /\ IsSome(outcome) /\ Unwrap(outcome).ok

\* C30: search drains the event stream.  It returns a response only after
\* the stream has reported its end, having polled every item of it, and the
\* response is built from the last event the stream emitted: its raw is
\* that event serialised, its answer that event's answer.
C30_DrainsFully ==
    SearchOk =>
        /\ finished
        /\ pc = "done"
        /\ emitted # <<>>
        /\ ErrorFree
        /\ last_event = Some(emitted[Len(emitted)].v)
        /\ Unwrap(outcome).v.raw = to_value(emitted[Len(emitted)].v)
        /\ Unwrap(outcome).v.answer = emitted[Len(emitted)].v.answer

\* search has returned over the response of the nested payload followed by
\* the context payload: two events were polled, then the end, and the
\* response is that of the second
C30_Witness ==
    /\ SearchOk
    /\ stream = Wire(<<MsgNested, MsgCtx>>)
    /\ Len(emitted) = 2
    /\ finished
    /\ emitted[1].v.answer = Some("N")
    /\ Unwrap(outcome).v.answer = None
    /\ Unwrap(outcome).v.raw = to_value(emitted[2].v)

-----------------------------------------------------------------------------
(* The submission: its network legs *)

\* no network call occurs twice in the history
NoCallTwice(log) == \A i, j \in 1..Len(log) : log[i] = log[j] => i = j

\* the submission has returned the error of a network leg
LegFailed ==
    /\ IsSome(outcome)
    /\ ~Unwrap(outcome).ok
    /\ Unwrap(outcome).e \in NegotiateErrors \cup TransferErrors \cup AskErrors
                                \cup {"MissingSecureUrl"}

\* C31: no network leg is retried.  In every step of a submission the
\* history of network calls holds the main query POST at most once and, for
\* each file, the negotiation and the transfer at most once each; and once a
\* leg has failed the call has returned that error and no step issues a
\* further network call.
C31_NoRetry ==
    [][/\ NoCallTwice(net_log')
       /\ LegFailed' => (pc' = "done" /\ net_log' # <<>>)
       /\ LegFailed => net_log' = net_log]_vars

\* the main query POST timed out after two uploads: five calls, each once
C31_Witness ==
    /\ LegFailed
    /\ Unwrap(outcome).e = "Timeout"
    /\ Len(net_log) = 5
    /\ net_log[5] = <<"perplexity_ask">>
    /\ NoCallTwice(net_log)

-----------------------------------------------------------------------------
(* The event content extractor: the first FINAL step, raw, the nested answer *)

\* the steps have a FINAL step after their first FINAL step whose
\* content.answer is a JSON-object string
LaterFinalWellFormed(steps) ==
    \E i \in DOMAIN steps :
        /\ i > FirstFinal(steps)
        /\ StepIsFinal(steps[i])
        /\ IsSome(StepAnswerObject(steps[i]))

\* the first FINAL step is unusable: it has no content, no string
\* content.answer, or one that is no JSON
FirstFinalUnusable(steps) ==
    \/ ~IsSome(StepAnswerString(steps[FirstFinal(steps)]))
    \/ ~from_str(Unwrap(StepAnswerString(steps[FirstFinal(steps)]))).ok

\* C32: only the first FINAL step of the steps is consulted.  When its
\* content.answer is a JSON-object string, the event has the answer and the
\* complete web results of that object; when it is unusable, the event has
\* the top-level answer and no web results, whatever a later FINAL step
\* holds.
C32_OnlyFirstFinal ==
    (ParseReturned /\ ArgIsObject /\ IsSome(TextSteps)) =>
        LET steps == Unwrap(TextSteps)
            first == steps[FirstFinal(steps)]
        IN  FirstFinal(steps) # 0 =>
                /\ Unwrap(parse_ret).ok
                /\ IsSome(StepAnswerObject(first)) =>
                      /\ RetEvent.answer = StringAt(Unwrap(StepAnswerObject(first)), "answer")
                      /\ RetEvent.web_results =
                            CompleteEntries(ResultsOf(Unwrap(StepAnswerObject(first))))
                /\ FirstFinalUnusable(steps) =>
                      /\ RetEvent.answer = StringAt(TopLevel, "answer")
                      /\ RetEvent.web_results = <<>>

\* the first FINAL step holds an answer that is no JSON, a later one is
\* well formed: the event has the top-level answer and no web results
C32_Witness ==
    /\ ParseReturned
    /\ ArgIsObject
    /\ IsSome(TextSteps)
    /\ FirstFinal(Unwrap(TextSteps)) = 1
    /\ IsSome(StepAnswerString(Unwrap(TextSteps)[1]))
    /\ FirstFinalUnusable(Unwrap(TextSteps))
    /\ LaterFinalWellFormed(Unwrap(TextSteps))
    /\ RetEvent.answer = Some("Top level answer")
    /\ RetEvent.web_results = <<>>

\* the first FINAL step is well formed and so is a later one with another
\* answer: the event has the answer of the first
FirstOfTwoUsed ==
    /\ ParseReturned
    /\ ArgIsObject
    /\ IsSome(TextSteps)
    /\ FirstFinal(Unwrap(TextSteps)) # 0
    /\ ~FirstFinalUnusable(Unwrap(TextSteps))
    /\ LaterFinalWellFormed(Unwrap(TextSteps))
    /\ RetEvent.answer = Some("A")
    /\ RetEvent.web_results = <<>>

\* the "text" of the payload is a string that is no JSON
TextStringNoJson ==
    /\ "text" \in DOMAIN TopLevel
    /\ TopLevel["text"].t = "string"
    /\ ~from_str(TopLevel["text"].v).ok

\* C33: whenever the nested path gave the event its answer and results,
\* the "text" of raw is the array of steps, not a string; and a "text"
\* string that is no JSON is in raw as it was in the payload, with the
\* event taking the top-level answer and no web results.
C33_RawTextParsed ==
    (ParseReturned /\ ArgIsObject) =>
        /\ (IsSome(TextSteps) /\ ~NestedPathBroken) =>
              /\ Unwrap(parse_ret).ok
              /\ "text" \in DOMAIN RetEvent.raw
              /\ RetEvent.raw["text"].t = "array"
              /\ RetEvent.raw["text"].v = Unwrap(TextSteps)
        /\ TextStringNoJson =>
              /\ Unwrap(parse_ret).ok
              /\ "text" \in DOMAIN RetEvent.raw
              /\ RetEvent.raw["text"].t = "string"
              /\ RetEvent.raw["text"].v = TopLevel["text"].v
              /\ RetEvent.answer = StringAt(TopLevel, "answer")
              /\ RetEvent.web_results = <<>>

\* the payload held its steps as a JSON string and the nested path gave
\* the answer: raw holds the array of the two steps
C33_Witness ==
    /\ ParseReturned
    /\ ArgIsObject
    /\ IsSome(TextArrayString)
    /\ ~NestedPathBroken
    /\ RetEvent.answer = Some("A")
    /\ Len(RetEvent.web_results) = 2
    /\ RetEvent.raw["text"].t = "array"
    /\ Len(RetEvent.raw["text"].v) = 2

\* the payload held "plain words" as its text: raw holds that string
BadTextKept ==
    /\ ParseReturned
    /\ ArgIsObject
    /\ TextStringNoJson
    /\ RetEvent.raw["text"].t = "string"
    /\ RetEvent.raw["text"].v = TextPlainText
    /\ RetEvent.answer = Some("Top level answer")

\* Option: the JSON value the content.answer string of the first FINAL step
\* parses to
FirstFinalValue ==
    IF IsSome(TextSteps) /\ ~NestedPathBroken
    THEN Some(from_str(Unwrap(StepAnswerString(
                  Unwrap(TextSteps)[FirstFinal(Unwrap(TextSteps))]))).v)
    ELSE None

\* a JSON value has no string member "answer"
NoStringAnswer(value) ==
    \/ value.t # "object"
    \/ ~IsSome(StringAt(value.v, "answer"))

\* the web_results array of a JSON value, empty when it is no object or has
\* none
ResultsOfValue(value) == IF value.t = "object" THEN ResultsOf(value.v) ELSE <<>>

\* C37: when the nested path is taken the top-level "answer" is not used.
\* If the answer string of the first FINAL step is JSON without a string
\* member "answer", the event has no answer, and the complete web results
\* of the nested value, also when the payload has a top-level string
\* "answer".
C37_NestedAnswerOnly ==
    (ParseReturned /\ ArgIsObject /\ IsSome(FirstFinalValue)) =>
        (NoStringAnswer(Unwrap(FirstFinalValue)) =>
            /\ Unwrap(parse_ret).ok
            /\ RetEvent.answer = None
            /\ RetEvent.web_results = CompleteEntries(ResultsOfValue(Unwrap(FirstFinalValue))))

\* the first FINAL step holds an object with web_results and no answer,
\* the payload a top-level answer: the event has the result and no answer
C37_Witness ==
    /\ ParseReturned
    /\ ArgIsObject
    /\ IsSome(FirstFinalValue)
    /\ NoStringAnswer(Unwrap(FirstFinalValue))
    /\ StringAt(TopLevel, "answer") = Some("Top level answer")
    /\ RetEvent.answer = None
    /\ Len(RetEvent.web_results) = 1
    /\ RetEvent.web_results[1].name = "Only"

\* the first FINAL step holds the JSON number 42, the payload a top-level
\* answer: the event has no answer and no results
NumberAnswerGivesNone ==
    /\ ParseReturned
    /\ ArgIsObject
    /\ IsSome(FirstFinalValue)
    /\ Unwrap(FirstFinalValue).t = "number"
    /\ StringAt(TopLevel, "answer") = Some("Top level answer")
    /\ RetEvent.answer = None
    /\ RetEvent.web_results = <<>>


-----------------------------------------------------------------------------
(* upload_file: the URL it returns *)

\* the object URL is one of the image endpoint
OfImageEndpoint(url) == Len(url) = 3 /\ url[1] = "image" /\ url[2] = "upload"

\* secure with its signed segment /private/s--abc--/v17/user_uploads/ written
\* as /private/user_uploads/, for each of the secure URLs the endpoint sends
SignedSegmentReplaced(secure) ==
    LET f == secure[Len(secure)]
    IN  CASE Len(secure) = 5 /\ secure[3] = "v17" ->
                <<"private", "user_uploads", f>>
          [] Len(secure) = 9 ->
                <<"private", "user_uploads",
                  "private", "s--abc--", "v17", "user_uploads", f>>
          [] OTHER -> secure

\* C34: when the negotiated object URL contains "image/upload", upload_file
\* returns the secure_url of the transfer response with its signed segment
\* replaced by /private/user_uploads/, and fails with MissingSecureUrl when
\* secure_url is absent; otherwise it returns the negotiated object URL as
\* it is and reads no response body.
C34_UploadResult ==
    [][pc = "transfer" =>
        LET url == Unwrap(negotiated)
        IN  IF OfImageEndpoint(url)
            THEN /\ pc' = "upload" =>
                        /\ IsSome(s3_resp')
                        /\ IsSome(Unwrap(s3_resp').secure_url)
                        /\ attachments' =
                             Append(attachments,
                                    SignedSegmentReplaced(
                                        Unwrap(Unwrap(s3_resp').secure_url)))
                 /\ (IsSome(s3_resp') /\ ~IsSome(Unwrap(s3_resp').secure_url)) =>
                        /\ outcome' = Some(Err("MissingSecureUrl"))
                        /\ attachments' = attachments
            ELSE /\ s3_resp' = None
                 /\ pc' = "upload" => attachments' = Append(attachments, url)]_vars

\* the first file went through the image endpoint, whose response carried
\* the signed segment twice: the first of the two is rewritten
C34_Witness ==
    /\ pc = "upload"
    /\ file_idx = 2
    /\ s3_resp = Some([secure_url |->
            Some(<<"private", "s--abc--", "v17", "user_uploads",
                   "private", "s--abc--", "v17", "user_uploads", 1>>)])
    /\ attachments = << <<"private", "user_uploads",
                          "private", "s--abc--", "v17", "user_uploads", 1>> >>

\* a file went through the image endpoint and its response had no secure_url
SecureUrlAbsent ==
    /\ pc = "done"
    /\ s3_resp = Some([secure_url |-> None])
    /\ outcome = Some(Err("MissingSecureUrl"))


-----------------------------------------------------------------------------
(* Error events: what search does with one, what the decoder does after one *)

\* the positions of the error events among the items emitted
ErrorsAt(items) == {i \in DOMAIN items : ~items[i].ok}

\* C35: when the event stream yields an error event (a transport error,
\* InvalidUtf8 or a JSON error), search returns that error at once: the
\* error is the last item it was given, and what search returned is that
\* error and no SearchResponse, whatever events came before it.
C35_SearchReturnsError ==
    consumer = "search" =>
        \A i \in ErrorsAt(emitted) :
            /\ i = Len(emitted)
            /\ pc = "done"
            /\ outcome = Some(emitted[i])

\* search had kept an event when the stream gave it a JSON error: it has
\* returned the error
C35_Witness ==
    /\ consumer = "search"
    /\ Len(emitted) = 2
    /\ emitted[1].ok
    /\ IsSome(last_event)
    /\ emitted[2] = Err("Json")
    /\ outcome = Some(Err("Json"))
    /\ Len(buffer) > 0

\* search had kept an event when the transport failed
SearchReturnsTransportError ==
    /\ consumer = "search"
    /\ Len(emitted) = 2
    /\ IsSome(last_event)
    /\ outcome = Some(Err("Http"))

\* bytes holds a terminal frame that a frame-by-frame reading gets to
RECURSIVE TerminatorIn(_)
TerminatorIn(bytes) ==
    IF Find(bytes, DELIMITER) = None THEN FALSE
    ELSE LET r == try_parse_event(bytes, FALSE)
         IN  r.finished \/ TerminatorIn(r.buffer)

\* the bytes the decoder has taken out of its buffer
Consumed == SubSeq(stream, 1, Len(stream) - Len(rest) - Len(buffer))

\* C36: an error event does not end the event stream: when the stream has
\* ended for a caller of search_stream that was given an error event, and no
\* terminal frame was read, every well-formed content frame that followed
\* has been emitted: none is left in the buffer.
C36_ErrorDoesNotEndStream ==
    (/\ consumer = "stream"
     /\ pc = "done"
     /\ ErrorsAt(emitted) # {}
     /\ ~TerminatorIn(Consumed)) =>
        FrameByFrame(buffer) = <<>>


-----------------------------------------------------------------------------
(* The Client and its builder: who may send files *)

\* a Client was built and the request given to it has been validated
Validated == IsSome(http) /\ pc \in {"upload", "done"}

\* C38: a Client lets a request with files through validation exactly when
\* the cookie map of its builder was not empty at build time, whatever the
\* transport: a rejected request fails with FileUploadRequiresAuth, and a
\* custom transport is used as it was given, the builder's cookies not
\* installed in it.
C38_AuthFromBuilderCookies ==
    Validated =>
        /\ request.files # <<>> => (pc = "upload" <=> builder.cookies # {})
        /\ pc = "done" => outcome = Some(Err("FileUploadRequiresAuth"))
        /\ IsSome(builder.http_client) => Unwrap(http) = Unwrap(builder.http_client)

\* a Client built with cookies and a custom transport that holds no cookie
\* has let a request with files through
C38_Witness ==
    /\ Validated
    /\ builder.cookies = SessionCookies
    /\ IsSome(builder.http_client)
    /\ Unwrap(http).custom
    /\ Unwrap(http).jar = {}
    /\ request.files # <<>>
    /\ pc = "upload"

\* a Client built without cookies on a custom transport that holds a cookie
\* of its own has rejected a request with files
CustomTransportRejected ==
    /\ Validated
    /\ builder.cookies = {}
    /\ Unwrap(http).custom
    /\ Unwrap(http).jar # {}
    /\ request.files # <<>>
    /\ outcome = Some(Err("FileUploadRequiresAuth"))


-----------------------------------------------------------------------------
(* The MCP tools: the mode and the model of the request *)

\* the tool that was called
CalledTool == Unwrap(tool_call).tool

\* C39: the request of a tool call has the mode of its tool (Auto for
\* perplexity_search, DeepResearch for perplexity_research, Reasoning for
\* perplexity_reason), no model, no files, and incognito set; its mode and
\* model resolve to a token, and the call fails neither with
\* InvalidModelForMode nor with FileUploadRequiresAuth.
C39_ToolRequestResolves ==
    (IsSome(tool_call) /\ pc # "tool") =>
        /\ CalledTool = "perplexity_search"   => request.mode = "Auto"
        /\ CalledTool = "perplexity_research" => request.mode = "DeepResearch"
        /\ CalledTool = "perplexity_reason"   => request.mode = "Reasoning"
        /\ request.model = None
        /\ request.files = <<>>
        /\ request.incognito
        /\ outcome # Some(Err("InvalidModelForMode"))
        /\ outcome # Some(Err("FileUploadRequiresAuth"))
        /\ pc = "done" => net_log # <<>>
        /\ IsSome(payload) =>
              /\ Unwrap(payload).params.is_incognito
              /\ CalledTool = "perplexity_search" =>
                    Unwrap(payload).params.model_preference = "turbo"
              /\ CalledTool = "perplexity_research" =>
                    Unwrap(payload).params.model_preference = "pplx_alpha"
              /\ CalledTool = "perplexity_reason" =>
                    Unwrap(payload).params.model_preference = "pplx_reasoning"

\* perplexity_reason was called on a Client without cookies and its request
\* was POSTed with the token of the Reasoning mode
C39_Witness ==
    /\ IsSome(tool_call)
    /\ CalledTool = "perplexity_reason"
    /\ ~has_cookies
    /\ pc = "call"
    /\ IsSome(payload)
    /\ Unwrap(payload).params.model_preference = "pplx_reasoning"
    /\ Unwrap(payload).params.mode = "copilot"

====
